---------------------------- MODULE Spec2Model ----------------------------
(***************************************************************************)
(* NextTrack: the POST /api/recommend handler in its two variants, the     *)
(* reference-track route (selectedTracks) and the listening-history route  *)
(* (listeningHistory), with the Spotify catalog as the environment.        *)
(*                                                                         *)
(* Strings are TLA+ strings; a character is a string of length 1.  Numbers *)
(* that are fractions in the code are exact rationals here, kept as        *)
(* integers in units of 1/Unit; a score is kept in hundredths, which is    *)
(* what Math.round(score * 100) / 100 produces.  Binary floating point is  *)
(* not modelled: values are the exact decimal ones.                        *)
(***************************************************************************)
EXTENDS Integers, Sequences, FiniteSets, TLC

\* ------------------------------------------------------------------ bounds

\* How far from the oldest pending call a completion may be: a concurrent
\* call at position i settles while fewer than MaxReorder calls before
\* it are still pending.
MaxReorder == 2

\* The number of injected collaborator failures in one request.
MaxFaults == 1

\* ----------------------------------------------------------------- numbers

Unit == 60 * 100

Abs(n) == IF n < 0 THEN -n ELSE n
Max(a, b) == IF a >= b THEN a ELSE b
Min(a, b) == IF a <= b THEN a ELSE b

\* Math.round(score * 100) for a score of u / Unit: the nearest hundredth,
\* a half rounding up.
RoundToHundredths(u) == (2 * u * 100 + Unit) \div (2 * Unit)

\* ----------------------------------------------------------------- strings

CharAt(s, i) == SubSeq(s, i, i)

LowerChar(c) ==
  CASE c = "A" -> "a" [] c = "B" -> "b" [] c = "G" -> "g" [] c = "P" -> "p"
    [] c = "Q" -> "q" [] c = "R" -> "r" [] c = "U" -> "u" [] c = "X" -> "x"
    [] OTHER -> c

RECURSIVE toLowerCase(_)
toLowerCase(s) ==
  IF s = "" THEN "" ELSE LowerChar(Head(s)) \o toLowerCase(Tail(s))

IsSpace(c) == c = " "

RECURSIVE trimStart(_)
trimStart(s) ==
  IF s # "" /\ IsSpace(Head(s)) THEN trimStart(Tail(s)) ELSE s

RECURSIVE trimEnd(_)
trimEnd(s) ==
  IF s # "" /\ IsSpace(CharAt(s, Len(s)))
  THEN trimEnd(SubSeq(s, 1, Len(s) - 1))
  ELSE s

trim(s) == trimEnd(trimStart(s))

\* String.prototype.includes
includes(s, sub) ==
  \E i \in 0..(Len(s) - Len(sub)) : SubSeq(s, i + 1, i + Len(sub)) = sub

startsWith(s, prefix) ==
  Len(prefix) <= Len(s) /\ SubSeq(s, 1, Len(prefix)) = prefix

\* s.split(/\s+/): the pieces between maximal runs of white space; a run at
\* either end leaves an empty piece there, and "" splits to <<"">>.
RECURSIVE SplitFrom(_, _, _)
SplitFrom(s, i, cur) ==
  IF i > Len(s) THEN <<cur>>
  ELSE IF IsSpace(CharAt(s, i))
       THEN IF i > 1 /\ IsSpace(CharAt(s, i - 1))
            THEN SplitFrom(s, i + 1, cur)
            ELSE <<cur>> \o SplitFrom(s, i + 1, "")
       ELSE SplitFrom(s, i + 1, cur \o CharAt(s, i))

splitWhitespace(s) == SplitFrom(s, 1, "")

\* ------------------------------------------------------------- sequences

Range(f) == {f[i] : i \in DOMAIN f}

SeqIncludes(seq, x) == \E i \in DOMAIN seq : seq[i] = x

\* Array.prototype.slice(0, n)
SliceTo(seq, n) == SubSeq(seq, 1, Min(n, Len(seq)))

RECURSIVE Flat(_)
Flat(seqs) == IF seqs = <<>> THEN <<>> ELSE Head(seqs) \o Flat(Tail(seqs))

\* [...new Set(seq)]: first occurrences, in order
RECURSIVE DedupSeq(_)
DedupSeq(seq) ==
  IF seq = <<>> THEN <<>>
  ELSE LET init == DedupSeq(SubSeq(seq, 1, Len(seq) - 1))
           last == seq[Len(seq)]
       IN  IF SeqIncludes(init, last) THEN init ELSE Append(init, last)


\* ------------------------------------------------------------- data model

\* An absent optional number (popularity?: number).
Undefined == 0 - 1

UnknownGenre == "Unknown Genre"
UnknownArtist == "Unknown Artist"

\* track.artists[0]?.name || "Unknown Artist"
FirstArtistName(track) ==
  IF track.artists # <<>> /\ track.artists[1].name # ""
  THEN track.artists[1].name
  ELSE UnknownArtist

\* The TrackMetadata built from a catalog track and the genre resolved for it.
TrackMetadata(track, genre) ==
  [id |-> track.id,
   title |-> track.name,
   artist |-> FirstArtistName(track),
   genre |-> genre,
   popularity |-> track.popularity,
   releaseYear |-> track.album.release_year,
   album |-> track.album.name]

\* ---------------------------------------------- mood (both route variants)

getMoodPreferences(mood) ==
  LET m == toLowerCase(mood)
  IN  CASE m = "happy" ->
             [preferredGenres |-> <<"pop", "dance", "electronic", "indie-pop">>,
              popularityRange |-> <<60, 100>>]
        [] m = "sad" ->
             [preferredGenres |-> <<"indie", "folk", "acoustic", "alternative">>,
              popularityRange |-> <<20, 80>>]
        [] m = "energetic" ->
             [preferredGenres |->
                <<"rock", "electronic", "dance", "hip-hop", "metal">>,
              popularityRange |-> <<40, 100>>]
        [] m = "calm" ->
             [preferredGenres |->
                <<"ambient", "classical", "jazz", "acoustic", "chill">>,
              popularityRange |-> <<10, 70>>]
        [] OTHER ->
             [preferredGenres |-> <<>>, popularityRange |-> <<0, 100>>]

\* A mood similarity whose partial credit is not held at 0.
moodSimilarityUnclamped(track, moodPreferences) ==
  LET minPop == moodPreferences.popularityRange[1]
      maxPop == moodPreferences.popularityRange[2]
      distance == Min(Abs(track.popularity - minPop),
                      Abs(track.popularity - maxPop))
  IN  (IF SeqIncludes(moodPreferences.preferredGenres, track.genre)
       THEN (6 * Unit) \div 10 ELSE 0)
      + (IF track.popularity = Undefined THEN 0
         ELSE IF track.popularity >= minPop /\ track.popularity <= maxPop
              THEN (4 * Unit) \div 10
              ELSE (4 * Unit) \div 10 - (distance * Unit) \div 50)

\* In units of 1/Unit.
calculateMoodSimilarity(track, moodPreferences) ==
  LET minPop == moodPreferences.popularityRange[1]
      maxPop == moodPreferences.popularityRange[2]
      genrePart ==
        IF SeqIncludes(moodPreferences.preferredGenres, track.genre)
        THEN (6 * Unit) \div 10 ELSE 0
      distance == Min(Abs(track.popularity - minPop),
                      Abs(track.popularity - maxPop))
      popPart ==
        IF track.popularity = Undefined THEN 0
        ELSE IF track.popularity >= minPop /\ track.popularity <= maxPop
             THEN (4 * Unit) \div 10
             ELSE Max(0, (4 * Unit) \div 10 - (distance * Unit) \div 50)
  IN  genrePart + popPart

\* ------------------------------------- similarity (reference-track route)

\* words1.filter(word => words2.includes(word)).length
CommonWords(words1, words2) ==
  Cardinality({i \in DOMAIN words1 : SeqIncludes(words2, words1[i])})

\* Token overlap, in units of 1/Unit.
calculateTitleSimilarity(title1, title2) ==
  LET s1 == trim(toLowerCase(title1))
      s2 == trim(toLowerCase(title2))
      words1 == splitWhitespace(s1)
      words2 == splitWhitespace(s2)
      common == CommonWords(words1, words2)
  IN  IF s1 = s2 THEN Unit
      ELSE IF includes(s1, s2) \/ includes(s2, s1) THEN (8 * Unit) \div 10
      ELSE IF common = 0 THEN 0
      ELSE (common * Unit) \div Max(Len(words1), Len(words2))

\* One reference track's similarity to the candidate, in units of 1/Unit.
\* selectedTrack.artists[0]?.name.toLowerCase() of a track with no artist is
\* undefined, and includes(undefined) searches for "undefined".
SimilarityTo(track, selectedTrack) ==
  LET selArtist ==
        IF selectedTrack.artists = <<>> THEN "undefined"
        ELSE toLowerCase(selectedTrack.artists[1].name)
      artistPart ==
        IF \/ includes(toLowerCase(track.artist), selArtist)
           \/ (selectedTrack.artists # <<>>
               /\ includes(selArtist, toLowerCase(track.artist)))
        THEN Unit \div 2 ELSE 0
      titlePart ==
        (3 * calculateTitleSimilarity(track.title, selectedTrack.name)) \div 10
      popularityDiff == Abs(track.popularity - selectedTrack.popularity)
      popularityPart ==
        IF track.popularity # Undefined /\ track.popularity # 0
           /\ selectedTrack.popularity # Undefined
           /\ selectedTrack.popularity # 0
        THEN (2 * Max(0, Unit - (popularityDiff * Unit) \div 100)) \div 10
        ELSE 0
  IN  artistPart + titlePart + popularityPart

RECURSIVE MaxOver(_)
MaxOver(values) ==
  IF values = <<>> THEN 0 ELSE Max(Head(values), MaxOver(Tail(values)))

calculateTrackSimilarity(track, selectedTracks) ==
  MaxOver([i \in DOMAIN selectedTracks |->
             SimilarityTo(track, selectedTracks[i])])

\* ---------------------------------------- context (reference-track route)

\* track.popularity || 50
PopularityOr50(track) ==
  IF track.popularity = Undefined \/ track.popularity = 0
  THEN 50 ELSE track.popularity

\* The rules of getTimeOfDayScore's switch, in tenths.
TimeOfDayRules(genre, popularity, timeOfDay) ==
      CASE timeOfDay = "morning" ->
             IF genre \in {"pop", "dance", "electronic"} /\ popularity > 60
             THEN 10
             ELSE IF genre \in {"rock", "indie-pop"} /\ popularity > 40 THEN 8
             ELSE IF genre \in {"jazz", "acoustic"} THEN 6
             ELSE 3
        [] timeOfDay = "afternoon" ->
             IF genre \in {"pop", "indie", "alternative"} THEN 9
             ELSE IF genre \in {"rock", "electronic"} /\ popularity > 30 THEN 7
             ELSE IF genre \in {"jazz", "acoustic", "folk"} THEN 8
             ELSE 5
        [] timeOfDay = "evening" ->
             IF genre \in {"indie", "alternative", "acoustic"} THEN 10
             ELSE IF genre \in {"pop", "electronic"} /\ popularity > 40 THEN 8
             ELSE IF genre \in {"jazz", "ambient"} THEN 9
             ELSE IF genre \in {"rock"} THEN 6
             ELSE 4
        [] timeOfDay = "night" ->
             IF genre \in {"ambient", "chill", "electronic"} THEN 10
             ELSE IF genre \in {"jazz", "acoustic", "indie"} THEN 9
             ELSE IF genre \in {"dance", "electronic"} /\ popularity > 70 THEN 8
             ELSE IF genre \in {"rock", "metal"} THEN 5
             ELSE 3
        [] OTHER -> 5

\* In tenths.
getTimeOfDayScore(track, timeOfDay) ==
  TimeOfDayRules(toLowerCase(track.genre), PopularityOr50(track), timeOfDay)

\* The rules of getActivityScore's switch, in tenths.
ActivityRules(genre, popularity, activity) ==
      CASE activity = "workout" ->
             IF genre \in {"rock", "electronic", "dance", "hip-hop", "metal"}
             THEN 10
             ELSE IF genre \in {"pop"} /\ popularity > 60 THEN 8
             ELSE IF genre \in {"indie", "alternative"} /\ popularity > 40
             THEN 6
             ELSE 2
        [] activity = "study" ->
             IF genre \in {"ambient", "classical", "jazz", "acoustic"} THEN 10
             ELSE IF genre \in {"indie", "folk"} THEN 8
             ELSE IF genre \in {"electronic"} /\ popularity < 50 THEN 6
             ELSE IF genre \in {"rock", "metal", "dance"} THEN 2
             ELSE 4
        [] activity = "party" ->
             IF genre \in {"dance", "electronic", "pop"} /\ popularity > 60
             THEN 10
             ELSE IF genre \in {"hip-hop", "rock"} /\ popularity > 50 THEN 8
             ELSE IF genre \in {"indie-pop"} /\ popularity > 40 THEN 7
             ELSE IF genre \in {"ambient", "classical", "acoustic"} THEN 1
             ELSE 3
        [] activity = "relax" ->
             IF genre \in {"ambient", "classical", "jazz", "acoustic", "chill"}
             THEN 10
             ELSE IF genre \in {"indie", "folk"} THEN 9
             ELSE IF genre \in {"electronic"} /\ popularity < 60 THEN 7
             ELSE IF genre \in {"rock", "metal", "dance"} THEN 2
             ELSE 5
        [] OTHER -> 5

\* In tenths.
getActivityScore(track, activity) ==
  ActivityRules(toLowerCase(track.genre), PopularityOr50(track), activity)

\* An absent string or array of the request (selectedTracks, mood, ...), and
\* an absent object (preferences, context).
Absent == "<absent>"
NoObject == [absent |-> TRUE]

\* In units of 1/Unit.  context.timeOfDay and context.activity are Absent or
\* a label; an empty label is falsy as well.
calculateContextScore(track, context) ==
  LET timePart ==
        IF context.timeOfDay \notin {Absent, ""}
        THEN (getTimeOfDayScore(track, context.timeOfDay) * 6 * Unit) \div 100
        ELSE 0
      activityPart ==
        IF context.activity \notin {Absent, ""}
        THEN (getActivityScore(track, context.activity) * 4 * Unit) \div 100
        ELSE 0
  IN  Min(timePart + activityPart, Unit)

\* ------------------------------------------ scoring (reference-track route)

\* A scoreTrack that gives the similarity to the reference tracks weight 2.
scoreTrackSimilarityTwice(track, prefs, selectedTracks, extractedGenres, context) ==
  RoundToHundredths(
    (IF SeqIncludes(extractedGenres, track.genre) THEN 3 * Unit ELSE 0)
    + (IF Len(selectedTracks) > 0
       THEN 2 * calculateTrackSimilarity(track, selectedTracks) ELSE 0)
    + (IF prefs.mood \notin {Absent, ""}
       THEN 3 * calculateMoodSimilarity(track, getMoodPreferences(prefs.mood))
       ELSE 0)
    + (IF context # NoObject THEN 2 * calculateContextScore(track, context)
       ELSE 0)
    + (IF track.popularity # Undefined /\ track.popularity > 70
       THEN Unit ELSE 0))

\* The score in hundredths.  prefs is the request's preferences object,
\* context the request's context object or NoObject.
scoreTrack(track, prefs, selectedTracks, extractedGenres, context) ==
  LET genrePart ==
        IF SeqIncludes(extractedGenres, track.genre) THEN 3 * Unit ELSE 0
      similarityPart ==
        IF Len(selectedTracks) > 0
        THEN 4 * calculateTrackSimilarity(track, selectedTracks) ELSE 0
      moodPart ==
        IF prefs.mood \notin {Absent, ""}
        THEN 3 * calculateMoodSimilarity(track, getMoodPreferences(prefs.mood))
        ELSE 0
      contextPart ==
        IF context # NoObject THEN 2 * calculateContextScore(track, context)
        ELSE 0
      popularityPart ==
        IF track.popularity # Undefined /\ track.popularity > 70
        THEN Unit ELSE 0
  IN  RoundToHundredths(genrePart + similarityPart + moodPart
                        + contextPart + popularityPart)

\* ------------------------------------------------ title (history route)

RECURSIVE Levenshtein(_, _)
Levenshtein(a, b) ==
  IF a = "" THEN Len(b)
  ELSE IF b = "" THEN Len(a)
  ELSE IF Head(a) = Head(b) THEN Levenshtein(Tail(a), Tail(b))
  ELSE 1 + Min(Levenshtein(Tail(a), Tail(b)),
               Min(Levenshtein(a, Tail(b)), Levenshtein(Tail(a), b)))

\* Edit distance, in units of 1/Unit.
calculateTitleSimilarityLev(title1, title2) ==
  LET s1 == trim(toLowerCase(title1))
      s2 == trim(toLowerCase(title2))
  IN  IF s1 = s2 THEN Unit
      ELSE IF Len(s1) = 0 THEN (IF Len(s2) = 0 THEN Unit ELSE 0)
      ELSE IF Len(s2) = 0 THEN 0
      ELSE Unit - (Levenshtein(s1, s2) * Unit) \div Max(Len(s1), Len(s2))

\* ------------------------------------- sequence analysis (history route)

\* `${from}->${to}`
TransitionKey(from, to) == from \o "->" \o to

\* The keys of a transitions object, in insertion order.
RECURSIVE TransitionKeys(_)
TransitionKeys(values) ==
  IF Len(values) < 2 THEN <<>>
  ELSE LET init == TransitionKeys(SubSeq(values, 1, Len(values) - 1))
           key == TransitionKey(values[Len(values) - 1], values[Len(values)])
       IN  IF SeqIncludes(init, key) THEN init ELSE Append(init, key)

\* The count the loop leaves under `key`.
TransitionCount(values, key) ==
  Cardinality({i \in 1..(Len(values) - 1) :
                 TransitionKey(values[i], values[i + 1]) = key})

\* t.split('->')[1]: what lies between the first "->" and the next one (or
\* the end); Absent (undefined) when the string holds no "->".
RECURSIVE UpToArrow(_)
UpToArrow(s) ==
  IF s = "" \/ startsWith(s, "->") THEN ""
  ELSE Head(s) \o UpToArrow(Tail(s))

RECURSIVE AfterArrow(_)
AfterArrow(s) ==
  IF s = "" THEN Absent
  ELSE IF startsWith(s, "->") THEN UpToArrow(SubSeq(s, 3, Len(s)))
  ELSE AfterArrow(Tail(s))

Genres(tracks) == [i \in DOMAIN tracks |-> tracks[i].genre]
Artists(tracks) == [i \in DOMAIN tracks |-> tracks[i].artist]

\* The object calculateGenreTransitions returns: its keys in insertion
\* order and the count of each.
calculateGenreTransitions(tracks) ==
  LET keys == TransitionKeys(Genres(tracks))
  IN  [keys |-> keys,
       count |-> [k \in Range(keys) |-> TransitionCount(Genres(tracks), k)]]

calculateArtistTransitions(tracks) ==
  LET keys == TransitionKeys(Artists(tracks))
  IN  [keys |-> keys,
       count |-> [k \in Range(keys) |-> TransitionCount(Artists(tracks), k)]]

\* A point is kept when it is the first or differs by more than `step` from
\* the point before it in the mapped array.
TrendFilter(points, step) ==
  LET keep == {i \in DOMAIN points :
                 i = 1 \/ Abs(points[i] - points[i - 1]) > step}
      RECURSIVE Pick(_)
      Pick(i) ==
        IF i > Len(points) THEN <<>>
        ELSE (IF i \in keep THEN <<points[i]>> ELSE <<>>) \o Pick(i + 1)
  IN  Pick(1)

calculatePopularityTrend(tracks) ==
  TrendFilter([i \in DOMAIN tracks |-> PopularityOr50(tracks[i])], 10)

\* The year new Date().getFullYear() gives while the request runs.
CurrentYear == 2025

calculateReleaseYearTrend(tracks) ==
  TrendFilter([i \in DOMAIN tracks |->
                 IF tracks[i].releaseYear = Undefined
                    \/ tracks[i].releaseYear = 0
                 THEN CurrentYear ELSE tracks[i].releaseYear], 2)

\* unique artists / tracks, as the pair <<numerator, denominator>>
calculateArtistDiversity(tracks) ==
  <<Cardinality(Range(Artists(tracks))), Len(tracks)>>

analyzeListeningSequence(tracks) ==
  [genreTransitions |-> calculateGenreTransitions(tracks),
   artistTransitions |-> calculateArtistTransitions(tracks),
   popularityTrend |-> calculatePopularityTrend(tracks),
   releaseYearTrend |-> calculateReleaseYearTrend(tracks),
   artistDiversity |-> calculateArtistDiversity(tracks)]

\* An insertion that puts x before the elements of its own key: the sort it
\* makes is not stable.
InsertBeforeEquals(sorted, x) ==
  LET n == Cardinality({i \in DOMAIN sorted : sorted[i].key > x.key})
  IN  SubSeq(sorted, 1, n) \o <<x>> \o SubSeq(sorted, n + 1, Len(sorted))

\* Array.prototype.sort with a comparator (a, b) => key(b) - key(a): a
\* stable sort, the larger keys first.  `pairs` holds records [key, val].
InsertDesc(sorted, x) ==
  LET n == Cardinality({i \in DOMAIN sorted : sorted[i].key >= x.key})
  IN  SubSeq(sorted, 1, n) \o <<x>> \o SubSeq(sorted, n + 1, Len(sorted))

RECURSIVE SortDesc(_)
SortDesc(pairs) ==
  IF pairs = <<>> THEN <<>>
  ELSE InsertDesc(SortDesc(SubSeq(pairs, 1, Len(pairs) - 1)),
                  pairs[Len(pairs)])

Vals(pairs) == [i \in DOMAIN pairs |-> pairs[i].val]

\* How often x occurs in seq.
Frequency(seq, x) == Cardinality({i \in DOMAIN seq : seq[i] = x})

\* A predictor that leaves the direct transitions out.
predictNextGenreTopOnly(transitions, currentGenre, allGenres) ==
  LET distinctGenres == DedupSeq(allGenres)
  IN  SliceTo(Vals(SortDesc([i \in DOMAIN distinctGenres |->
                               [key |-> Frequency(allGenres, distinctGenres[i]),
                                val |-> distinctGenres[i]]])), 3)

\* The acceptance set of genres, as an array in insertion order.
predictNextGenre(transitions, currentGenre, allGenres) ==
  LET direct == SelectSeq(transitions.keys,
                          LAMBDA t : startsWith(t, currentGenre \o "->"))
      directTransitions ==
        Vals(SortDesc([i \in DOMAIN direct |->
                         [key |-> transitions.count[direct[i]],
                          val |-> direct[i]]]))
      distinctGenres == DedupSeq(allGenres)
      topGenres ==
        SliceTo(Vals(SortDesc([i \in DOMAIN distinctGenres |->
                                 [key |-> Frequency(allGenres,
                                                    distinctGenres[i]),
                                  val |-> distinctGenres[i]]])), 3)
      top2 == SliceTo(directTransitions, 2)
      predicted ==
        DedupSeq([i \in DOMAIN top2 |-> AfterArrow(top2[i])] \o topGenres)
  IN  IF predicted = <<>> THEN <<currentGenre>> ELSE predicted

Falsy(n) == n = Undefined \/ n = 0

RECURSIVE SumDeltas(_)
SumDeltas(points) ==
  IF Len(points) < 2 THEN 0
  ELSE SumDeltas(SubSeq(points, 1, Len(points) - 1))
       + (points[Len(points)] - points[Len(points) - 1])

\* trend.slice(-3)
LastThree(trend) == SubSeq(trend, Max(1, Len(trend) - 2), Len(trend))

isGoodPopularityTransition(currentPopularity, nextPopularity, trend) ==
  IF Falsy(currentPopularity) \/ Falsy(nextPopularity) THEN TRUE
  ELSE IF Len(trend) < 2 THEN TRUE
  ELSE LET divisor == Max(1, Len(trend) - 1)
           popularityChange == nextPopularity - currentPopularity
       IN  \* |popularityChange - sum / divisor| < 20
           Abs(popularityChange * divisor - SumDeltas(LastThree(trend)))
             < 20 * divisor

CountOf(transitions, key) ==
  IF key \in DOMAIN transitions.count THEN transitions.count[key] ELSE 0

isGoodArtistTransition(currentArtist, nextArtist, artistTransitions) ==
  \/ CountOf(artistTransitions, TransitionKey(currentArtist, nextArtist)) > 0
  \/ CountOf(artistTransitions, TransitionKey(nextArtist, currentArtist)) > 0
  \/ currentArtist = nextArtist

MaxFrequencyIn(seq) == MaxOver([i \in DOMAIN seq |-> Frequency(seq, seq[i])])

\* ---------------------------------------------- scoring (history route)

\* scoreTrack of the history route, in hundredths.  prefs.preferredGenres
\* is an array here (the validation has passed).
scoreTrackBase(track, prefs) ==
  LET genrePart ==
        IF SeqIncludes(prefs.preferredGenres, track.genre)
        THEN 3 * Unit ELSE 0
      titlePart ==
        IF prefs.currentTrack \notin {Absent, ""}
        THEN 2 * calculateTitleSimilarityLev(track.title, prefs.currentTrack)
        ELSE 0
      moodPart ==
        IF prefs.mood \notin {Absent, ""}
        THEN 4 * calculateMoodSimilarity(track, getMoodPreferences(prefs.mood))
        ELSE 0
      popularityPart ==
        IF track.popularity # Undefined /\ track.popularity > 70
        THEN Unit ELSE 0
  IN  RoundToHundredths(genrePart + titlePart + moodPart + popularityPart)

\* In hundredths.
scoreTrackForSequence(track, listeningHistory, preferences) ==
  IF Len(listeningHistory) = 0 THEN scoreTrackBase(track, preferences)
  ELSE
    LET lastTrack == listeningHistory[Len(listeningHistory)]
        sequencePattern == analyzeListeningSequence(listeningHistory)
        allGenres == Genres(listeningHistory)
        allArtists == Artists(listeningHistory)
        preferencePart == (scoreTrackBase(track, preferences) * Unit) \div 100
        predictedGenres ==
          predictNextGenre(sequencePattern.genreTransitions,
                           lastTrack.genre, allGenres)
        genrePart ==
          IF SeqIncludes(predictedGenres, track.genre) THEN 2 * Unit ELSE 0
        popularityPart ==
          IF isGoodPopularityTransition(lastTrack.popularity, track.popularity,
                                        sequencePattern.popularityTrend)
          THEN Unit ELSE 0
        artistPart ==
          IF isGoodArtistTransition(lastTrack.artist, track.artist,
                                    sequencePattern.artistTransitions)
          THEN Unit ELSE 0
        maxArtistFrequency == MaxFrequencyIn(allArtists)
        trackArtistFrequency == Frequency(allArtists, track.artist)
        diversity == sequencePattern.artistDiversity
        diversityPart ==
          IF 10 * diversity[1] < 3 * diversity[2]
          THEN (IF track.artist # lastTrack.artist
                   /\ 10 * trackArtistFrequency < 3 * maxArtistFrequency
                THEN (15 * Unit) \div 10 ELSE 0)
          ELSE IF 10 * diversity[1] > 7 * diversity[2]
          THEN (IF track.artist = lastTrack.artist THEN Unit \div 2 ELSE 0)
          ELSE 0
        frequencyPart ==
          IF 2 * Frequency(allGenres, track.genre) >= MaxFrequencyIn(allGenres)
          THEN Unit ELSE 0
        isUserGenreMatch == SeqIncludes(preferences.preferredGenres, track.genre)
        isHistoryGenreMatch == SeqIncludes(predictedGenres, track.genre)
        isUserMoodMatch ==
          IF preferences.mood \notin {Absent, ""}
          THEN 2 * calculateMoodSimilarity(track,
                     getMoodPreferences(preferences.mood)) > Unit
          ELSE FALSE
        matchPart ==
          (IF isUserGenreMatch /\ isHistoryGenreMatch THEN 2 * Unit ELSE 0)
          + (IF isUserMoodMatch /\ isHistoryGenreMatch
             THEN (15 * Unit) \div 10 ELSE 0)
    IN  RoundToHundredths(preferencePart + genrePart + popularityPart
                          + artistPart + diversityPart + frequencyPart
                          + matchPart)

\* ------------------------------------------------------ the catalog

\* fetchSpotifyTracks asks the catalog for at most this many tracks.
SearchLimit == 20

\* "Returns top 20 recommendations maximum"
MaxRecommendations == 20

Artist(id, name, genres) == [id |-> id, name |-> name, genres |-> genres]

CatalogArtists ==
  {Artist("ar1", "Q", <<"rock", "pop">>),
   Artist("ar2", "y", <<"pop">>),
   Artist("ar3", "z", <<>>)}

ArtistById(id) == CHOOSE a \in CatalogArtists : a.id = id

SpotifyTrack(id, name, artistId, popularity, album, year) ==
  [id |-> id,
   name |-> name,
   artists |-> <<[id |-> artistId, name |-> ArtistById(artistId).name]>>,
   popularity |-> popularity,
   album |-> [name |-> album, release_year |-> year]]

T1 == SpotifyTrack("t1", "a", "ar1", 80, "m", 2020)
\* the same title and artist as T1 under another id
T2 == SpotifyTrack("t2", "a", "ar1", 40, "m2", 2024)
T3 == SpotifyTrack("t3", "b a", "ar2", 80, "n", 2021)
T4 == SpotifyTrack("t4", "c", "ar3", 0, "jazz", 2010)
\* T3 but for its id and one word of its title
T5 == SpotifyTrack("t5", "c a", "ar2", 80, "n", 2021)

\* The tracks of the large catalog: SearchLimit + 1 tracks with distinct
\* ids and titles.
Letters == "abcdefghijklmnopqrstuvwxyz"
BigTrack(k) ==
  SpotifyTrack("b" \o CharAt(Letters, k), "s" \o CharAt(Letters, k),
               "ar2", 50, "n", 2021)

CatalogTracks == {T1, T2, T3, T4, T5} \cup {BigTrack(k) : k \in 1..(SearchLimit + 1)}

Worlds == {"small", "ties", "large"}

\* GET /v1/search?type=track: the tracks the catalog returns to the i-th
\* search of a request, when it answers.
SearchResult(world, i) ==
  CASE world = "small" ->
         (CASE i = 1 -> <<T1, T2>>
            [] i = 2 -> <<T3, T1>>
            [] i = 3 -> <<T2, T4>>
            [] i = 4 -> <<>>
            [] OTHER -> <<T4, T3>>)
    [] world = "ties" ->
         (CASE i = 1 -> <<T3>>
            [] i = 2 -> <<T2, T1, T3, T5>>
            [] OTHER -> <<T1>>)
    [] OTHER ->
         (CASE i = 1 -> [k \in 1..SearchLimit |-> BigTrack(k)]
            [] i = 2 -> <<BigTrack(SearchLimit + 1), BigTrack(1)>>
            [] OTHER -> <<>>)

\* GET /v1/tracks/{id}: the track, or <<>> when the catalog answers 404.
TrackLookup(id) ==
  IF \E t \in CatalogTracks : t.id = id
  THEN <<CHOOSE t \in CatalogTracks : t.id = id>>
  ELSE <<>>

\* GET /v1/search?type=artist&limit=1: artists.items
ArtistSearch(name) ==
  IF \E a \in CatalogArtists : a.name = name
  THEN <<CHOOSE a \in CatalogArtists : a.name = name>>
  ELSE <<>>

\* GET /v1/artists/{id}: the genres of the artist the catalog returns;
\* an id it does not know is answered 404 (fetchArtistMetadata gives null).
ArtistKnown(id) == \E a \in CatalogArtists : a.id = id

\* artistMetadata?.genres?.[0] || "Unknown Genre"; `ok` is whether the
\* lookup gave artist metadata at all.
ResolvedGenre(track, ok) ==
  IF ok /\ track.artists # <<>> /\ ArtistKnown(track.artists[1].id)
     /\ ArtistById(track.artists[1].id).genres # <<>>
     /\ ArtistById(track.artists[1].id).genres[1] # ""
  THEN ArtistById(track.artists[1].id).genres[1]
  ELSE UnknownGenre

\* ------------------------------------------------- dedup, filter, rank

\* The elements of seq at the indices in keep, in order.
RECURSIVE PickFrom(_, _, _)
PickFrom(seq, keep, i) ==
  IF i > Len(seq) THEN <<>>
  ELSE (IF i \in keep THEN <<seq[i]>> ELSE <<>>) \o PickFrom(seq, keep, i + 1)

KeepIndices(seq, keep) == PickFrom(seq, keep, 1)

\* allTracks.filter((track, index, self) =>
\*   index === self.findIndex(t => t.id === track.id))
uniqueTracksOf(allTracks) ==
  KeepIndices(allTracks,
              {i \in DOMAIN allTracks :
                 \A j \in 1..(i - 1) : allTracks[j].id # allTracks[i].id})

SameSong(r, rec) ==
  /\ r.track.title = rec.track.title
  /\ r.track.artist = rec.track.artist
  /\ r.track.genre = rec.track.genre

uniqueRecommendationsOf(recommendations) ==
  KeepIndices(recommendations,
              {i \in DOMAIN recommendations :
                 \A j \in 1..(i - 1) :
                   ~SameSong(recommendations[j], recommendations[i])})

selectedTrackIds(selectedTracks) ==
  {selectedTracks[i].id : i \in DOMAIN selectedTracks}

filteredRecommendationsOf(uniqueRecommendations, selectedTracks) ==
  SelectSeq(uniqueRecommendations,
            LAMBDA rec : rec.track.id \notin selectedTrackIds(selectedTracks))

\* The handler without its sort: the list in pool order.
keepPoolOrder(recommendations) == recommendations

\* recommendations.sort((a, b) => b.score - a.score)
sortByScore(recommendations) ==
  Vals(SortDesc([i \in DOMAIN recommendations |->
                   [key |-> recommendations[i].score,
                    val |-> recommendations[i]]]))

\* ----------------------------------------------------- evaluation metrics

\* Each metric is the fraction <<numerator, denominator>>.
GenreRatio(recommendations) ==
  IF Len(recommendations) < 2 THEN <<1, 1>>
  ELSE <<Cardinality({recommendations[i].track.genre :
                        i \in DOMAIN recommendations}),
         Len(recommendations)>>

calculateGenreCoherence(recommendations) == GenreRatio(recommendations)

calculateGenreConsistency(recommendations) == GenreRatio(recommendations)

RECURSIVE SumAbsDeltas(_)
SumAbsDeltas(points) ==
  IF Len(points) < 2 THEN 0
  ELSE SumAbsDeltas(SubSeq(points, 1, Len(points) - 1))
       + Abs(points[Len(points)] - points[Len(points) - 1])

\* A smoothness that is not held at 0.
smoothnessUnclamped(recommendations) ==
  LET all == [i \in DOMAIN recommendations |->
                recommendations[i].track.popularity]
      popularities == SelectSeq(all, LAMBDA q : q # Undefined)
      n == Len(popularities) - 1
  IN  IF Len(recommendations) < 2 \/ Len(popularities) < 2 THEN <<1, 1>>
      ELSE <<50 * n - SumAbsDeltas(popularities), 50 * n>>

calculatePopularitySmoothness(recommendations) ==
  LET all == [i \in DOMAIN recommendations |->
                recommendations[i].track.popularity]
      popularities == SelectSeq(all, LAMBDA q : q # Undefined)
      n == Len(popularities) - 1
  IN  IF Len(recommendations) < 2 \/ Len(popularities) < 2 THEN <<1, 1>>
      ELSE \* max(0, 1 - (total / n) / 50)
           <<Max(0, 50 * n - SumAbsDeltas(popularities)), 50 * n>>

evaluationMetricsOf(recommendations) ==
  [genreCoherence |-> calculateGenreCoherence(recommendations),
   popularitySmoothness |-> calculatePopularitySmoothness(recommendations),
   genreConsistency |-> calculateGenreConsistency(recommendations)]

\* ------------------------------------------------------------ requests

\* A reference track as the page sends it.
SelectedTrack(t) ==
  [id |-> t.id,
   name |-> t.name,
   artists |-> [i \in DOMAIN t.artists |-> [name |-> t.artists[i].name]],
   popularity |-> t.popularity]

SelectedChoices ==
  {Absent, <<>>, <<SelectedTrack(T1)>>, <<SelectedTrack(T3), SelectedTrack(T1)>>,
   <<SelectedTrack(T1), SelectedTrack(T2)>>}

Contexts ==
  {NoObject, [timeOfDay |-> "night", activity |-> "party"]}

HistoryChoices ==
  {Absent, <<>>, <<"t1">>, <<"nx">>, <<"t1", "t3">>, <<"t3", "t4", "t3">>}

HistoryPreference(preferredGenres, mood, currentTrack) ==
  [preferredGenres |-> preferredGenres, mood |-> mood,
   currentTrack |-> currentTrack]

HistoryPreferences ==
  {NoObject,
   HistoryPreference(Absent, Absent, Absent),
   HistoryPreference(<<>>, "happy", Absent),
   HistoryPreference(<<"rock">>, "happy", "b"),
   HistoryPreference(<<"pop", "rock">>, Absent, Absent)}

\* The bodies of POST /api/recommend: the reference-track route reads
\* selectedTracks, preferences and context, the history route reads
\* listeningHistory and preferences.
Requests ==
  [mode : {"tracks"},
   selectedTracks : SelectedChoices,
   listeningHistory : {Absent},
   preferences : [mood : {Absent, "happy"}],
   context : Contexts]
  \cup
  [mode : {"history"},
   selectedTracks : {Absent},
   listeningHistory : HistoryChoices,
   preferences : HistoryPreferences,
   context : {NoObject}]

\* --------------------------------------------------------------- state

VARIABLES
  pc,               \* where the handler is: the await it is suspended at
  req,              \* the request body
  world,            \* which catalog answers
  faultBudget,      \* how many more collaborator calls may fail
  called,           \* the kinds of catalog call issued so far
  cursor,           \* the index of the sequential loop in progress
  extractedGenres,  \* extractGenresFromTracks: allGenres so far
  historyTracks,    \* the history route's historyTracks
  searchQueries,
  trackResults,     \* the values of trackPromises, pending or settled
  uniqueTracks,
  recommendations,  \* the values of the per-candidate promises
  response,         \* what the handler returned
  outcomes,         \* history: <<call, index, outcome>> of each settled call
  overtaken,        \* history: a concurrent call settled before an earlier one
  page,             \* the state of the page component (Home)
  probe             \* a function of the program applied to given arguments

vars == <<pc, req, world, faultBudget, called, cursor, extractedGenres,
          historyTracks, searchQueries, trackResults, uniqueTracks,
          recommendations, response, outcomes, overtaken, page, probe>>

\* The page is not open; no function is applied.
NoPage == [open |-> FALSE]
NoProbe == [of |-> "none"]

Pending == [settled |-> FALSE]
Settled(v) == [settled |-> TRUE, value |-> v]
AllSettled(slots) == \A i \in DOMAIN slots : slots[i].settled
Values(slots) == [i \in DOMAIN slots |-> slots[i].value]

NoResponse == [status |-> 0]

Init ==
  /\ pc = "start"
  /\ req \in Requests
  /\ world \in Worlds
  /\ faultBudget = (IF world = "large" THEN 0 ELSE MaxFaults)
  /\ called = {}
  /\ cursor = 0
  /\ extractedGenres = <<>>
  /\ historyTracks = <<>>
  /\ searchQueries = <<>>
  /\ trackResults = <<>>
  /\ uniqueTracks = <<>>
  /\ recommendations = <<>>
  /\ response = NoResponse
  /\ outcomes = {}
  /\ overtaken = FALSE
  /\ page = NoPage
  /\ probe = NoProbe

\* ---------------------------------------------------------- validation

Message(status, message) == [status |-> status, message |-> message]

\* The reference-track route's check of the body: the response it returns,
\* or NoResponse when the body passes.
validateReference(body) ==
  IF body.selectedTracks = Absent \/ Len(body.selectedTracks) = 0
  THEN Message(400, "Selected tracks are required")
  ELSE NoResponse

\* The history route's checks, in their order.  Reading
\* preferences.preferredGenres of an absent preferences object throws
\* outside the handler's try block: the framework answers 500.
validateHistory(body) ==
  IF body.listeningHistory = Absent
  THEN Message(400, "Listening history is required and must be an array")
  ELSE IF Len(body.listeningHistory) = 0 /\ body.preferences = NoObject
  THEN Message(500, "Internal Server Error")
  ELSE IF /\ Len(body.listeningHistory) = 0
          /\ (\/ body.preferences.preferredGenres = Absent
              \/ Len(body.preferences.preferredGenres) = 0)
  THEN Message(400,
               "Either listening history or preferred genres must be provided")
  ELSE IF \/ body.preferences = NoObject
          \/ body.preferences.preferredGenres = Absent
  THEN Message(400, "Invalid preferences provided")
  ELSE NoResponse

validate(body) ==
  IF body.mode = "tracks" THEN validateReference(body)
  ELSE validateHistory(body)

\* -------------------------------------------------------- search queries

\* `${track.name} ${track.artists[0]?.name}`
TrackQuery(track) ==
  track.name \o " "
  \o (IF track.artists = <<>> THEN "undefined" ELSE track.artists[1].name)

ReferenceQueries(selectedTracks, genres) ==
  SliceTo([i \in DOMAIN selectedTracks |-> TrackQuery(selectedTracks[i])], 3)
  \o SliceTo(genres, 3)

HistoryQueries(history, preferences) ==
  LET sequencePattern == analyzeListeningSequence(history)
      allGenres == Genres(history)
      allArtists == Artists(history)
      lastTrack == history[Len(history)]
      predictedGenres ==
        predictNextGenre(sequencePattern.genreTransitions,
                         lastTrack.genre, allGenres)
      through ==
        SliceTo(SelectSeq(sequencePattern.genreTransitions.keys,
                          LAMBDA t : includes(t, lastTrack.genre)), 2)
      queries ==
        SliceTo(preferences.preferredGenres, 2)
        \o SliceTo(predictedGenres, 2)
        \o SliceTo(DedupSeq(allArtists), 2)
        \o <<lastTrack.title \o " " \o lastTrack.artist>>
        \o [i \in DOMAIN through |-> AfterArrow(through[i])]
      nonEmpty ==
        SelectSeq(DedupSeq(queries),
                  LAMBDA q : q # Absent /\ q # "" /\ Len(trim(q)) > 0)
  IN  SliceTo(nonEmpty, 6)

\* The history route's guess of a genre the catalog did not give.
InferGenre(track) ==
  LET albumName == toLowerCase(track.album.name)
      trackName == toLowerCase(track.name)
  IN  IF \/ includes(albumName, "classical") \/ includes(trackName, "prelude")
         \/ includes(trackName, "piano")
      THEN "classical"
      ELSE IF includes(albumName, "pop") \/ includes(trackName, "pop")
      THEN "pop"
      ELSE IF includes(albumName, "rock") \/ includes(trackName, "rock")
      THEN "rock"
      ELSE IF includes(albumName, "jazz") \/ includes(trackName, "jazz")
      THEN "jazz"
      ELSE "pop"

HistoryGenre(track, ok) ==
  IF ResolvedGenre(track, ok) = UnknownGenre THEN InferGenre(track)
  ELSE ResolvedGenre(track, ok)

\* ------------------------------------------------- scoring one candidate

\* What the per-candidate callback returns: the try block's value when the
\* artist lookup answers (`ok`: with metadata, else with null), the catch
\* block's value when it throws.
ScoredEntry(body, history, genres, track, genre) ==
  LET trackMetadata == TrackMetadata(track, genre)
  IN  [track |-> trackMetadata,
       score |->
         IF body.mode = "tracks"
         THEN scoreTrack(trackMetadata, body.preferences, body.selectedTracks,
                         genres, body.context)
         ELSE scoreTrackForSequence(trackMetadata, history, body.preferences)]

\* A callback that takes every lookup as answered with the artist.
EntryOfAnsweredLookup(body, history, genres, track, outcome) ==
  ScoredEntry(body, history, genres, track, ResolvedGenre(track, TRUE))

EnrichedEntry(body, history, genres, track, outcome) ==
  IF outcome = "throw"
  THEN ScoredEntry(body, history, genres, track, UnknownGenre)
  ELSE ScoredEntry(body, history, genres, track,
                   ResolvedGenre(track, outcome = "ok"))

\* ----------------------------------------------------------- the tail

\* From the scored pool to the list the response carries.
RankedList(body, pool) ==
  IF body.mode = "tracks"
  THEN sortByScore(filteredRecommendationsOf(uniqueRecommendationsOf(pool),
                                             body.selectedTracks))
  ELSE sortByScore(uniqueRecommendationsOf(pool))

\* The history route's debugInfo.
DebugInfo(history) ==
  IF Len(history) > 0
  THEN [predictedGenres |->
          predictNextGenre(analyzeListeningSequence(history).genreTransitions,
                           history[Len(history)].genre, Genres(history)),
        genreTransitions |-> analyzeListeningSequence(history).genreTransitions,
        artistDiversity |-> analyzeListeningSequence(history).artistDiversity]
  ELSE [predictedGenres |-> <<>>,
        genreTransitions |-> calculateGenreTransitions(<<>>),
        artistDiversity |-> <<0, 1>>]

SuccessResponse(body, history, genres, queries, unique, pool) ==
  LET list == RankedList(body, pool)
  IN  IF body.mode = "tracks"
      THEN [status |-> 200,
            recommendations |-> list,
            evaluationMetrics |-> evaluationMetricsOf(list),
            searchStrategy |-> "track-based",
            searchQueries |-> queries,
            totalTracksFound |-> Len(unique),
            selectedTracksCount |-> Len(body.selectedTracks),
            extractedGenres |-> genres]
      ELSE [status |-> 200,
            recommendations |-> list,
            sequenceAnalysis |->
              IF Len(history) > 0 THEN analyzeListeningSequence(history)
              ELSE NoObject,
            evaluationMetrics |-> evaluationMetricsOf(list),
            totalTracksAnalyzed |-> Len(history),
            searchStrategy |->
              IF Len(history) > 0 THEN "sequence-based" ELSE "genre-based",
            searchQueries |-> queries,
            totalTracksFound |-> Len(unique),
            debugInfo |-> DebugInfo(history)]

\* A failure response that carries a list.
FailureWithList ==
  [status |-> 500, message |-> "Failed to fetch recommendations",
   recommendations |-> <<>>]

FailureResponse == Message(500, "Failed to fetch recommendations")

\* ------------------------------------------------------------- actions

\* A collection of results in arrival order: the value goes to the first
\* slot still pending.
StoreInArrivalOrder(slots, i, v) ==
  LET first == CHOOSE k \in DOMAIN slots :
                 ~slots[k].settled /\ \A j \in 1..(k - 1) : slots[j].settled
  IN  [slots EXCEPT ![first] = Settled(v)]

\* Promise.all keeps each promise's value at the promise's own index.
StoreResult(slots, i, v) == [slots EXCEPT ![i] = Settled(v)]

Record(call, index, outcome) ==
  outcomes' = outcomes \cup {<<call, index, outcome>>}

OkOrFail(ok) == IF ok THEN "ok" ELSE "fail"

\* Slot i of slots settles now: is a slot before it still pending?
Overtakes(slots, i) == \E j \in 1..(i - 1) : ~slots[j].settled

AllPending(n) == [i \in 1..n |-> Pending]

Reply(r) ==
  /\ response' = r
  /\ pc' = "done"

\* The handler from `uniqueTracks` on, run when every search has settled
\* with allTracks: with no candidate, Promise.all of no promise resolves at
\* once and the handler answers; otherwise one artist lookup per candidate
\* is issued.
Discovered(queries, allTracks) ==
  LET unique == uniqueTracksOf(allTracks)
  IN  /\ uniqueTracks' = unique
      /\ IF unique = <<>>
         THEN /\ Reply(SuccessResponse(req, historyTracks, extractedGenres,
                                         queries, unique, <<>>))
              /\ recommendations' = <<>>
              /\ called' = called \cup {"search"}
         ELSE /\ recommendations' = AllPending(Len(unique))
              /\ pc' = "enrich"
              /\ called' = called \cup {"search", "artist"}
              /\ UNCHANGED response

\* Issue one search per query.
IssueSearches(queries) ==
  /\ searchQueries' = queries
  /\ trackResults' = AllPending(Len(queries))
  /\ pc' = "search"

\* The history route's fallback: one search, awaited outside any local try.
IssueFallback ==
  /\ searchQueries' = SliceTo(req.preferences.preferredGenres, 3)
  /\ trackResults' = <<>>
  /\ pc' = "fallback"

\* The request arrives: validation, then the token request.
Receive ==
  /\ UNCHANGED <<page, probe>>
  /\ pc = "start"
  /\ IF validate(req) # NoResponse
     THEN /\ Reply(validate(req))
          /\ UNCHANGED called
     ELSE /\ pc' = "token"
          /\ called' = called \cup {"token"}
          /\ UNCHANGED response
  /\ UNCHANGED <<req, world, faultBudget, cursor, extractedGenres,
                 historyTracks, searchQueries, trackResults, uniqueTracks,
                 recommendations, outcomes, overtaken>>

\* getSpotifyAccessToken answers with a token.
TokenOk ==
  /\ UNCHANGED <<page, probe>>
  /\ pc = "token"
  /\ IF req.mode = "tracks"
     THEN /\ pc' = "extract"
          /\ cursor' = 1
          /\ called' = called \cup {"artist-search"}
          /\ UNCHANGED <<searchQueries, trackResults>>
     ELSE IF Len(req.listeningHistory) > 0
     THEN /\ pc' = "resolve"
          /\ cursor' = 1
          /\ called' = called \cup {"track"}
          /\ UNCHANGED <<searchQueries, trackResults>>
     ELSE /\ IssueFallback
          /\ called' = called \cup {"search"}
          /\ UNCHANGED cursor
  /\ Record("token", 0, "ok")
  /\ UNCHANGED <<req, world, faultBudget, extractedGenres, historyTracks,
                 uniqueTracks, recommendations, response, overtaken>>

\* getSpotifyAccessToken throws: the handler's catch answers 500.
TokenFail ==
  /\ UNCHANGED <<page, probe>>
  /\ pc = "token"
  /\ faultBudget > 0
  /\ faultBudget' = faultBudget - 1
  /\ Reply(FailureResponse)
  /\ Record("token", 0, "fail")
  /\ UNCHANGED <<req, world, called, cursor, extractedGenres, historyTracks,
                 searchQueries, trackResults, uniqueTracks, recommendations,
                 overtaken>>

\* extractGenresFromTracks: one turn of its loop.  The artist search and the
\* artist lookup of the turn answer (ok), or one of them fails or throws and
\* the turn adds nothing.
ExtractSettle(ok) ==
  /\ UNCHANGED <<page, probe>>
  /\ pc = "extract"
  /\ ok \/ faultBudget > 0
  /\ faultBudget' = (IF ok THEN faultBudget ELSE faultBudget - 1)
  /\ LET track == req.selectedTracks[cursor]
         found == IF track.artists = <<>> \/ track.artists[1].name = ""
                  THEN <<>> ELSE ArtistSearch(track.artists[1].name)
         genres == IF ok /\ found # <<>> THEN found[1].genres ELSE <<>>
         allGenres == DedupSeq(extractedGenres \o genres)
     IN  /\ extractedGenres' = allGenres
         /\ IF cursor < Len(req.selectedTracks)
            THEN /\ cursor' = cursor + 1
                 /\ called' = called \cup {"artist"}
                 /\ UNCHANGED <<pc, searchQueries, trackResults>>
            ELSE /\ IssueSearches(ReferenceQueries(req.selectedTracks, allGenres))
                 /\ called' = called \cup {"artist", "search"}
                 /\ UNCHANGED cursor
  /\ Record("extract", cursor, OkOrFail(ok))
  /\ UNCHANGED <<req, world, historyTracks, uniqueTracks, recommendations,
                 response, overtaken>>

\* The history route's loop over listeningHistory: one turn.  "ok": the track
\* and its artist are fetched; "noArtist": the artist lookup gives null and
\* the genre is guessed; "fail": the track fetch is refused or something
\* throws, and the id is skipped.  An id the catalog does not know is skipped.
ResolveSettle(outcome) ==
  /\ UNCHANGED <<page, probe>>
  /\ pc = "resolve"
  /\ outcome = "ok" \/ faultBudget > 0
  /\ faultBudget' = (IF outcome = "ok" THEN faultBudget ELSE faultBudget - 1)
  /\ LET found == TrackLookup(req.listeningHistory[cursor])
         history ==
           IF outcome = "fail" \/ found = <<>> THEN historyTracks
           ELSE Append(historyTracks,
                       TrackMetadata(found[1],
                                     HistoryGenre(found[1], outcome = "ok")))
     IN  /\ outcome = "noArtist" => found # <<>>
         /\ historyTracks' = history
         /\ IF cursor < Len(req.listeningHistory)
            THEN /\ cursor' = cursor + 1
                 /\ called' = called \cup {"artist"}
                 /\ UNCHANGED <<pc, searchQueries, trackResults>>
            ELSE /\ IF Len(history) > 0
                    THEN IssueSearches(HistoryQueries(history, req.preferences))
                    ELSE IssueFallback
                 /\ called' = called \cup {"artist", "search"}
                 /\ UNCHANGED cursor
  /\ Record("resolve", cursor, outcome)
  /\ UNCHANGED <<req, world, extractedGenres, uniqueTracks, recommendations,
                 response, overtaken>>

\* One of the concurrent searches settles: with the catalog's tracks, or
\* with [] from the callback's own catch.
SearchSettle(i, ok) ==
  /\ UNCHANGED <<page, probe>>
  /\ pc = "search"
  /\ i \in DOMAIN trackResults
  /\ ~trackResults[i].settled
  /\ Cardinality({j \in 1..(i - 1) : ~trackResults[j].settled}) < MaxReorder
  /\ ok \/ faultBudget > 0
  /\ faultBudget' = (IF ok THEN faultBudget ELSE faultBudget - 1)
  /\ LET tracks == IF ok THEN SearchResult(world, i) ELSE <<>>
         results == StoreResult(trackResults, i, tracks)
     IN  /\ trackResults' = results
         /\ IF AllSettled(results)
            THEN Discovered(searchQueries, Flat(Values(results)))
            ELSE UNCHANGED <<pc, called, uniqueTracks, recommendations,
                             response>>
  /\ Record("search", i, OkOrFail(ok))
  /\ overtaken' = (overtaken \/ Overtakes(trackResults, i))
  /\ UNCHANGED <<req, world, cursor, extractedGenres, historyTracks,
                 searchQueries>>

\* The fallback search answers.
FallbackOk ==
  /\ UNCHANGED <<page, probe>>
  /\ pc = "fallback"
  /\ Discovered(searchQueries, SearchResult(world, 1))
  /\ Record("search", 1, "ok")
  /\ UNCHANGED <<req, world, faultBudget, cursor, extractedGenres,
                 historyTracks, searchQueries, trackResults, overtaken>>

\* The fallback search throws: the handler's catch answers 500.
FallbackFail ==
  /\ UNCHANGED <<page, probe>>
  /\ pc = "fallback"
  /\ faultBudget > 0
  /\ faultBudget' = faultBudget - 1
  /\ Reply(FailureResponse)
  /\ Record("search", 1, "fail")
  /\ UNCHANGED <<req, world, called, cursor, extractedGenres, historyTracks,
                 searchQueries, trackResults, uniqueTracks, recommendations,
                 overtaken>>

\* One of the concurrent per-candidate callbacks settles.
EnrichSettle(i, outcome) ==
  /\ UNCHANGED <<page, probe>>
  /\ pc = "enrich"
  /\ i \in DOMAIN recommendations
  /\ ~recommendations[i].settled
  /\ Cardinality({j \in 1..(i - 1) : ~recommendations[j].settled}) < MaxReorder
  /\ outcome = "ok" \/ faultBudget > 0
  /\ faultBudget' = (IF outcome = "ok" THEN faultBudget ELSE faultBudget - 1)
  /\ LET entry == EnrichedEntry(req, historyTracks, extractedGenres,
                                uniqueTracks[i], outcome)
         entries == StoreResult(recommendations, i, entry)
     IN  /\ recommendations' = entries
         /\ IF AllSettled(entries)
            THEN Reply(SuccessResponse(req, historyTracks, extractedGenres,
                                       searchQueries,
                                       uniqueTracks, Values(entries)))
            ELSE UNCHANGED <<pc, response>>
  /\ Record("artist", i, outcome)
  /\ overtaken' = (overtaken \/ Overtakes(recommendations, i))
  /\ UNCHANGED <<req, world, called, cursor, extractedGenres, historyTracks,
                 searchQueries, trackResults, uniqueTracks>>

Next ==
  \/ Receive
  \/ TokenOk
  \/ TokenFail
  \/ \E ok \in BOOLEAN : ExtractSettle(ok)
  \/ \E outcome \in {"ok", "noArtist", "fail"} : ResolveSettle(outcome)
  \/ \E i \in 1..6, ok \in BOOLEAN : SearchSettle(i, ok)
  \/ FallbackOk
  \/ FallbackFail
  \/ \E i \in 1..(6 * SearchLimit), outcome \in {"ok", "null", "throw"} :
       EnrichSettle(i, outcome)

Spec == Init /\ [][Next]_vars

\* -------------------------------------------------------------- claims

\* The handler answered 200 with a recommendation list.
Answered == pc = "done" /\ response.status = 200

\* The scored pool the list was made from.
ScoredPool == Values(recommendations)

Failed(call) == \E t \in outcomes : t[1] = call /\ t[3] # "ok"

\* The ids of the request's input tracks: the reference tracks, or the
\* listening-history tracks the catalog resolved.
InputTrackIds ==
  IF req.mode = "tracks" THEN selectedTrackIds(req.selectedTracks)
  ELSE {historyTracks[i].id : i \in DOMAIN historyTracks}

\* C1: in both modes, no entry of the returned list has the id of a
\* reference track or of a resolved listening-history track.
C1_NoInputTrackReturned ==
  Answered =>
    \A i \in DOMAIN response.recommendations :
      response.recommendations[i].track.id \notin InputTrackIds

\* C2: the returned list never has two entries with the same title and
\* artist, whatever their ids and genres.
C2_NoTwoEntriesOfOneSong ==
  Answered =>
    \A i, j \in DOMAIN response.recommendations :
      (/\ response.recommendations[i].track.title
            = response.recommendations[j].track.title
       /\ response.recommendations[i].track.artist
            = response.recommendations[j].track.artist) => i = j

\* C3: the returned list is sorted non-increasing by score.
C3_SortedByScore ==
  Answered =>
    \A i \in 1..(Len(response.recommendations) - 1) :
      response.recommendations[i].score
        >= response.recommendations[i + 1].score

\* C3's case: a list of several entries whose pool was not in score order.
C3_SortedAnUnsortedPool ==
  /\ Answered
  /\ Len(response.recommendations) >= 3
  /\ \E i, j \in DOMAIN response.recommendations :
       response.recommendations[i].score # response.recommendations[j].score
  /\ \E i \in 1..(Len(ScoredPool) - 1) :
       ScoredPool[i].score < ScoredPool[i + 1].score

\* The history route with no resolved history issues one search only.
IssuedSearches ==
  IF req.mode = "history" /\ historyTracks = <<>> THEN 1
  ELSE Len(searchQueries)

\* What the i-th search gave, by the outcome of that call alone.
SearchGave(i) ==
  IF <<"search", i, "ok">> \in outcomes THEN SearchResult(world, i) ELSE <<>>

\* The candidates in discovery order: query order, then position within
\* the query's result.
DiscoveryOrder ==
  uniqueTracksOf(Flat([i \in 1..IssuedSearches |-> SearchGave(i)]))

ArtistOutcome(i) ==
  IF <<"artist", i, "ok">> \in outcomes THEN "ok"
  ELSE IF <<"artist", i, "null">> \in outcomes THEN "null"
  ELSE "throw"

\* The list as the catalog's answers alone determine it.
OrderFreeList ==
  RankedList(req,
             [i \in DOMAIN DiscoveryOrder |->
                EnrichedEntry(req, historyTracks, extractedGenres,
                              DiscoveryOrder[i], ArtistOutcome(i))])

\* The position of each entry of list in the discovery order.
DiscoveryIndices(list) ==
  LET order == [k \in DOMAIN DiscoveryOrder |-> DiscoveryOrder[k].id]
  IN  [i \in DOMAIN list |->
         CHOOSE k \in DOMAIN order : order[k] = list[i].track.id]

\* C4: with the catalog's answer to each call fixed, the returned list is
\* the same for every order in which the concurrent searches and artist
\* lookups complete, and entries of equal score are in discovery order.
C4_CompletionOrderFree ==
  Answered =>
    /\ response.recommendations = OrderFreeList
    /\ LET found == DiscoveryIndices(response.recommendations)
       IN  \A i, j \in DOMAIN response.recommendations :
             (/\ i < j
              /\ response.recommendations[i].score
                   = response.recommendations[j].score)
             => found[i] < found[j]

\* C4's case: calls completed out of their order of issue, and the list
\* has two entries of equal score.
C4_TiesAfterOvertaking ==
  /\ Answered
  /\ overtaken
  /\ \E i, j \in DOMAIN response.recommendations :
       /\ i < j
       /\ response.recommendations[i].score
            = response.recommendations[j].score

\* C5: dedup-and-rank applied to its own output, with the same selected
\* tracks, gives the same list in the same order.
C5_DedupAndRankIdempotent ==
  Answered =>
    /\ RankedList(req, response.recommendations) = response.recommendations
    /\ RankedList(req, RankedList(req, ScoredPool))
         = RankedList(req, ScoredPool)

\* C5's case: the reference-track route removed an entry from the pool and
\* ranked a list with two entries of equal score.
C5_RankedWithTiesAndRemovals ==
  /\ Answered
  /\ req.mode = "tracks"
  /\ Len(response.recommendations) < Len(ScoredPool)
  /\ \E i, j \in DOMAIN response.recommendations :
       /\ i # j
       /\ response.recommendations[i].score
            = response.recommendations[j].score

\* C6: the returned list has at most 20 entries.
C6_AtMostTwentyEntries ==
  Answered => Len(response.recommendations) <= MaxRecommendations

\* C7: in every discovery path a search that fails gives an empty result
\* for its query only: the request completes with status 200 and scores
\* the candidates the other queries returned.
C7_SearchFailureIsLocal ==
  (pc = "done" /\ Failed("search")) =>
    /\ response.status = 200
    /\ uniqueTracks = DiscoveryOrder
    /\ Len(ScoredPool) = Len(DiscoveryOrder)

\* C8: every candidate of the id-deduplicated pool gives exactly one scored
\* entry, at its own position; the entry of a candidate whose artist lookup
\* gave nothing or threw has the genre "Unknown Genre", and in the pool the
\* handler ranks each entry is what its own lookup's outcome makes it,
\* whatever the other lookups did.
C8_OneEntryPerCandidate ==
  /\ pc \in {"enrich", "done"} => Len(recommendations) = Len(uniqueTracks)
  /\ \A i \in DOMAIN recommendations :
       recommendations[i].settled =>
         /\ recommendations[i].value.track.id = uniqueTracks[i].id
         /\ ArtistOutcome(i) # "ok" =>
              recommendations[i].value.track.genre = UnknownGenre
  /\ Answered =>
       \A i \in DOMAIN uniqueTracks :
         ScoredPool[i]
           = ScoredEntry(req, historyTracks, extractedGenres, uniqueTracks[i],
                         IF ArtistOutcome(i) = "ok"
                         THEN ResolvedGenre(uniqueTracks[i], TRUE)
                         ELSE UnknownGenre)

\* C8's case: one candidate's lookup failed, another's gave a genre, and
\* the handler answered with both scored.
C8_ScoredDespiteFailedLookup ==
  /\ Answered
  /\ \E i, j \in DOMAIN recommendations :
       /\ ArtistOutcome(i) # "ok"
       /\ ResolvedGenre(uniqueTracks[i], TRUE) # UnknownGenre
       /\ ArtistOutcome(j) = "ok"
       /\ ScoredPool[j].track.genre # UnknownGenre

TokenFailed == <<"token", 0, "fail">> \in outcomes

\* C9: when the token request fails the handler gives one response, of
\* status 500 with a message and no recommendations field, and nothing is
\* asked of the catalog afterwards; a response once given is never changed.
C9_TokenFailureIsOneFailure ==
  /\ [](TokenFailed =>
          /\ pc = "done"
          /\ response.status = 500
          /\ "message" \in DOMAIN response
          /\ "recommendations" \notin DOMAIN response
          /\ called = {"token"}
          /\ recommendations = <<>>)
  /\ [][response # NoResponse => response' = response]_vars

\* C9's case: the token request failed and the handler answered.
C9_AnsweredTokenFailure ==
  /\ TokenFailed
  /\ response # NoResponse

\* A request with no signal: no reference track, or an empty listening
\* history with no preferred genre.
NoSignal ==
  \/ /\ req.mode = "tracks"
     /\ (req.selectedTracks = Absent \/ Len(req.selectedTracks) = 0)
  \/ /\ req.mode = "history"
     /\ req.listeningHistory # Absent
     /\ Len(req.listeningHistory) = 0
     /\ \/ req.preferences = NoObject
        \/ req.preferences.preferredGenres = Absent
        \/ Len(req.preferences.preferredGenres) = 0

\* C10: a request with no signal is answered 400 before any catalog call.
C10_NoSignalRejected ==
  (NoSignal /\ pc # "start") =>
    /\ pc = "done"
    /\ response.status = 400
    /\ called = {}

\* ----------------------------------------------------------- the page

\* The number of invocations of getRecommendations in one session.
MaxClicks == 3

\* The handler's variables, and the handler not running.
handlerVars == <<pc, req, world, faultBudget, called, cursor, extractedGenres,
                 historyTracks, searchQueries, trackResults, uniqueTracks,
                 recommendations, response, outcomes, overtaken>>

HandlerIdle ==
  /\ pc = "idle"
  /\ req = NoObject
  /\ world = "none"
  /\ faultBudget = 0
  /\ called = {}
  /\ cursor = 0
  /\ extractedGenres = <<>>
  /\ historyTracks = <<>>
  /\ searchQueries = <<>>
  /\ trackResults = <<>>
  /\ uniqueTracks = <<>>
  /\ recommendations = <<>>
  /\ response = NoResponse
  /\ outcomes = {}
  /\ overtaken = FALSE

\* null, of errorMessage and selectedTrackId
Null == "<null>"

PleaseAddTracks == "Please add some tracks for recommendations"

\* Home's state after its first render.  clicks, posts and timers are
\* history: the invocations of getRecommendations, the POST requests sent
\* and the timers pending; posting is whether a POST is in flight.
PageInit ==
  /\ HandlerIdle
  /\ probe = NoProbe
  /\ page = [open |-> TRUE,
             selectedTracks |-> <<>>,
             recommendations |-> <<>>,
             loading |-> FALSE,
             errorMessage |-> Null,
             selectedTrackId |-> Null,
             clicks |-> 0,
             posts |-> 0,
             timers |-> 0,
             posting |-> FALSE,
             answer |-> [status |-> "none"]]

\* A getRecommendations that posts whatever the selection is.
getRecommendationsUnguarded(p) ==
  [p EXCEPT !.clicks = @ + 1,
            !.errorMessage = Null,
            !.recommendations = <<>>,
            !.loading = TRUE,
            !.posts = @ + 1,
            !.posting = TRUE]

\* A getRecommendations that leaves the list of the last answer on show.
getRecommendationsKeepsList(p) ==
  IF Len(p.selectedTracks) = 0
  THEN [p EXCEPT !.clicks = @ + 1,
                 !.errorMessage = PleaseAddTracks,
                 !.timers = @ + 1]
  ELSE [p EXCEPT !.clicks = @ + 1,
                 !.errorMessage = Null,
                 !.loading = TRUE,
                 !.posts = @ + 1,
                 !.posting = TRUE]

\* getRecommendations up to its await: the page it leaves.
getRecommendations(p) ==
  IF Len(p.selectedTracks) = 0
  THEN [p EXCEPT !.clicks = @ + 1,
                 !.errorMessage = PleaseAddTracks,
                 !.timers = @ + 1]
  ELSE [p EXCEPT !.clicks = @ + 1,
                 !.errorMessage = Null,
                 !.recommendations = <<>>,
                 !.loading = TRUE,
                 !.posts = @ + 1,
                 !.posting = TRUE]

\* addTrackToCollection
AddTrack(id) ==
  /\ ~SeqIncludes(page.selectedTracks, id)
  /\ page' = [page EXCEPT !.selectedTracks = Append(@, id)]
  /\ UNCHANGED <<handlerVars, probe>>

\* removeTrackFromCollection
RemoveTrack(id) ==
  /\ SeqIncludes(page.selectedTracks, id)
  /\ page' = [page EXCEPT
                !.selectedTracks = SelectSeq(@, LAMBDA t : t # id)]
  /\ UNCHANGED <<handlerVars, probe>>

\* clearAllTracks; its button is disabled while no track is selected
ClearTracks ==
  /\ Len(page.selectedTracks) > 0
  /\ page' = [page EXCEPT !.selectedTracks = <<>>]
  /\ UNCHANGED <<handlerVars, probe>>

\* The "get recommendations" button, disabled while loading.
ClickGetRecommendations ==
  /\ ~page.loading
  /\ page.clicks < MaxClicks
  /\ page' = getRecommendations(page)
  /\ UNCHANGED <<handlerVars, probe>>

\* The POST is answered 200 with a list.
PostOk(list) ==
  /\ page.posting
  /\ page' = [page EXCEPT !.recommendations = list,
                          !.selectedTrackId = Null,
                          !.loading = FALSE,
                          !.posting = FALSE,
                          !.answer = [status |-> "ok",
                                      recommendations |-> list]]
  /\ UNCHANGED <<handlerVars, probe>>

\* The POST is answered with an error, or fetch throws.
PostFail(message) ==
  /\ page.posting
  /\ page' = [page EXCEPT !.errorMessage = message,
                          !.loading = FALSE,
                          !.posting = FALSE,
                          !.answer = [status |-> "failed",
                                      message |-> message]]
  /\ UNCHANGED <<handlerVars, probe>>

\* setTimeout(() => setErrorMessage(null), 1000) fires.
ErrorTimeout ==
  /\ page.timers > 0
  /\ page' = [page EXCEPT !.errorMessage = Null, !.timers = @ - 1]
  /\ UNCHANGED <<handlerVars, probe>>

\* handleTrackSelect: a recommendation is clicked.
TrackSelect(id) ==
  /\ SeqIncludes(page.recommendations, id)
  /\ page' = [page EXCEPT !.selectedTrackId = id]
  /\ UNCHANGED <<handlerVars, probe>>

\* The lists and the error messages the POST is answered with.
PostedLists == {<<>>, <<"t2">>, <<"t5", "t2">>}

PostedMessages == {"Selected tracks are required",
                   "Failed to fetch recommendations"}

PageNext ==
  \/ \E id \in {"t1", "t3"} : AddTrack(id)
  \/ \E id \in {"t1", "t3"} : RemoveTrack(id)
  \/ ClearTracks
  \/ ClickGetRecommendations
  \/ \E list \in PostedLists : PostOk(list)
  \/ \E message \in PostedMessages : PostFail(message)
  \/ ErrorTimeout
  \/ \E id \in {"t2", "t5"} : TrackSelect(id)

PageSpec == PageInit /\ [][PageNext]_vars

\* C11: an invocation of getRecommendations while no track is selected
\* sends no POST /api/recommend; it sets the error message and leaves
\* recommendations, loading and the playing track's id as they were.
C11_EmptySelectionSendsNothing ==
  [][(page'.clicks # page.clicks /\ Len(page.selectedTracks) = 0) =>
       /\ page'.posts = page.posts
       /\ page'.posting = page.posting
       /\ page'.errorMessage = PleaseAddTracks
       /\ page'.recommendations = page.recommendations
       /\ page'.loading = page.loading
       /\ page'.selectedTrackId = page.selectedTrackId]_vars

\* C11's case: getRecommendations was invoked with no track selected while
\* the page showed recommendations and a playing track.
C11_RefusedWithListShown ==
  /\ page.errorMessage = PleaseAddTracks
  /\ Len(page.selectedTracks) = 0
  /\ Len(page.recommendations) > 0
  /\ page.selectedTrackId # Null
  /\ page.posts > 0

\* ------------------------------------- the first history route's scoring

\* A predictor that prefers, among transitions of one count, the one that
\* entered the object last.
predictNextGenreLastTie(transitions, currentGenre) ==
  LET possible == SelectSeq(transitions.keys,
                            LAMBDA t : startsWith(t, currentGenre \o "->"))
      sorted ==
        Vals(SortDesc([i \in DOMAIN possible |->
                         [key |-> transitions.count[possible[Len(possible) + 1 - i]],
                          val |-> possible[Len(possible) + 1 - i]]]))
  IN  IF sorted = <<>> THEN currentGenre ELSE AfterArrow(sorted[1])

\* predictNextGenre of the first history route: one genre.
predictNextGenreV1(transitions, currentGenre) ==
  LET possible == SelectSeq(transitions.keys,
                            LAMBDA t : startsWith(t, currentGenre \o "->"))
      possibleTransitions ==
        Vals(SortDesc([i \in DOMAIN possible |->
                         [key |-> transitions.count[possible[i]],
                          val |-> possible[i]]]))
  IN  IF possibleTransitions = <<>> THEN currentGenre
      ELSE IF AfterArrow(possibleTransitions[1]) = "" THEN currentGenre
      ELSE AfterArrow(possibleTransitions[1])

\* scoreTrack of the first history route, in units of 1/Unit: the sum as it
\* is, returned without rounding.
scoreTrackV1(track, prefs) ==
  LET genrePart ==
        IF prefs.preferredGenres # Absent
           /\ SeqIncludes(prefs.preferredGenres, track.genre)
        THEN 3 * Unit ELSE 0
      titlePart ==
        IF prefs.currentTrack \notin {Absent, ""}
        THEN 2 * calculateTitleSimilarityLev(track.title, prefs.currentTrack)
        ELSE 0
      moodPart ==
        IF prefs.mood \notin {Absent, ""}
        THEN 4 * calculateMoodSimilarity(track, getMoodPreferences(prefs.mood))
        ELSE 0
      popularityPart ==
        IF track.popularity # Undefined /\ track.popularity > 70
        THEN Unit ELSE 0
  IN  genrePart + titlePart + moodPart + popularityPart

\* scoreTrackForSequence of the first history route, in units of 1/Unit.
scoreTrackForSequenceV1(track, listeningHistory, preferences) ==
  IF Len(listeningHistory) = 0 THEN scoreTrackV1(track, preferences)
  ELSE
    LET lastTrack == listeningHistory[Len(listeningHistory)]
        sequencePattern == analyzeListeningSequence(listeningHistory)
        predictedGenre ==
          predictNextGenreV1(sequencePattern.genreTransitions, lastTrack.genre)
        genrePart == IF track.genre = predictedGenre THEN 4 * Unit ELSE 0
        popularityPart ==
          IF isGoodPopularityTransition(lastTrack.popularity, track.popularity,
                                        sequencePattern.popularityTrend)
          THEN 3 * Unit ELSE 0
        artistPart ==
          IF isGoodArtistTransition(lastTrack.artist, track.artist,
                                    sequencePattern.artistTransitions)
          THEN 3 * Unit ELSE 0
        preferencePart == scoreTrackV1(track, preferences) \div 2
        diversity == sequencePattern.artistDiversity
        diversityPart ==
          IF 10 * diversity[1] < 3 * diversity[2]
             /\ track.artist # lastTrack.artist
          THEN Unit ELSE 0
    IN  genrePart + popularityPart + artistPart + preferencePart
        + diversityPart

\* ------------------------------------------------ functions, one at a time

\* The longest listening history a function is applied to.
MaxHistory == 5

\* A TrackMetadata.
Metadata(title, artist, genre, popularity) ==
  [id |-> "x", title |-> title, artist |-> artist, genre |-> genre,
   popularity |-> popularity, releaseYear |-> 2020, album |-> "m"]

ProbeGenres == {"pop", "rock", "jazz", "folk"}

\* The listening histories of up to MaxHistory tracks, one artist per genre.
ProbeHistories ==
  UNION {[1..n -> {Metadata("a", "n-" \o g, g, 80) : g \in ProbeGenres}] :
           n \in 0..MaxHistory}

\* The candidates of the scoring functions.
ProbeCandidates ==
  {Metadata(t, a, g, p) : t \in {"a", "abc"},
                          a \in {"n-pop", FirstArtistName(T1)},
                          g \in {"pop", "electronic"},
                          p \in {Undefined, 0, 45, 80}}

\* A call: the function, its arguments, and no value yet.
Call(of, args) == [of |-> of, args |-> args, done |-> FALSE, out |-> Absent]

\* The calls of the scoring functions of the three routes.
ScoringCalls ==
  {Call("scoreTrack",
        [track |-> c, prefs |-> [mood |-> m], selectedTracks |-> s,
         extractedGenres |-> g, context |-> x]) :
     c \in ProbeCandidates, m \in {Absent, "happy"},
     s \in {<<>>, <<SelectedTrack(T1)>>, <<SelectedTrack(T3), SelectedTrack(T4)>>},
     g \in {<<>>, <<"pop">>},
     x \in {NoObject, [timeOfDay |-> "night", activity |-> Absent],
            [timeOfDay |-> "morning", activity |-> "party"]}}
  \cup
  {Call(f, [track |-> c, listeningHistory |-> h, preferences |-> q]) :
     f \in {"scoreTrackForSequence", "scoreTrackForSequenceV1"},
     c \in ProbeCandidates,
     h \in {h \in ProbeHistories :
              Len(h) = 0 \/ (Len(h) = 3 /\ h[1] = h[3])},
     q \in {HistoryPreference(<<>>, Absent, Absent),
            HistoryPreference(<<"pop">>, "happy", "abd"),
            HistoryPreference(<<"rock">>, "calm", "a")}}

\* The calls of the two calculateTitleSimilarity.
TitleCalls ==
  {Call(f, [title1 |-> a, title2 |-> b]) :
     f \in {"calculateTitleSimilarity", "calculateTitleSimilarityLev"},
     a \in {"", "a", " A ", "a a b", "a c", "b a", "abc"},
     b \in {"", "a", " A ", "a a b", "a c", "b a", "abc"}}

\* The largest popularity Spotify gives a track.
MaxPopularity == 100

\* The calls of calculateMoodSimilarity: the profiles of the four moods and
\* of an unknown mood, and profiles of other genre lists and ranges.
MoodCalls ==
  {Call("calculateMoodSimilarity",
        [track |-> Metadata("a", "n1", g, p), moodPreferences |-> q]) :
     g \in {"pop", "jazz", UnknownGenre},
     p \in {Undefined} \cup 0..MaxPopularity,
     q \in {getMoodPreferences(m) :
              m \in {"happy", "sad", "energetic", "calm", "other"}}
           \cup {[preferredGenres |-> l, popularityRange |-> r] :
                   l \in {<<>>, <<"jazz", "pop">>},
                   r \in {<<0, 0>>, <<50, 50>>, <<90, 10>>,
                          <<MaxPopularity, MaxPopularity>>}}}

\* The longest recommendation list the metrics are applied to.
MaxList == 3

\* The calls of the three evaluation metrics.
MetricCalls ==
  {Call("evaluationMetrics", [recommendations |-> l]) :
     l \in UNION {[1..n -> {[track |-> Metadata("a", "n1", g, p), score |-> 0] :
                              g \in {"pop", "rock"},
                              p \in {Undefined, 0, 50, MaxPopularity}}] :
                    n \in 0..MaxList}}

\* The calls of calculateTrackSimilarity: a candidate of every popularity
\* against one or two reference tracks.
SimilarityCalls ==
  LET Reference(name, artist, popularity) ==
        [id |-> "r", name |-> name, artists |-> <<[name |-> artist]>>,
         popularity |-> popularity]
  IN  {Call("calculateTrackSimilarity",
            [track |-> Metadata(t, a, "pop", p), selectedTracks |-> s]) :
         t \in {"a", "b a"}, a \in {"Queen", "x"}, p \in 0..MaxPopularity,
         s \in {<<Reference("b", "y", 0)>>,
                <<Reference("a", "queen", 60), Reference("c", "y", MaxPopularity)>>,
                <<Reference("a c", "the queen", MaxPopularity)>>}}

\* The calls of calculateContextScore: every genre of the tables and one of
\* none, in two letter cases, at the popularities around every threshold
\* of the tables, in every context.
ContextCalls ==
  {Call("calculateContextScore",
        [track |-> Metadata("a", "n1", g, p),
         context |-> [timeOfDay |-> t, activity |-> a]]) :
     g \in {"pop", "dance", "electronic", "rock", "indie-pop", "jazz",
            "acoustic", "indie", "alternative", "folk", "ambient", "chill",
            "metal", "hip-hop", "classical", "Pop", UnknownGenre},
     p \in {0, 1, 30, 31, 40, 41, 49, 50, 51, 59, 60, 61, 70, 71,
            MaxPopularity},
     t \in {Absent, "morning", "afternoon", "evening", "night"},
     a \in {Absent, "workout", "study", "party", "relax"}}

\* The calls of the genre predictors, on every history of 1 to MaxHistory
\* tracks.
PredictorCalls ==
  {Call(f, [tracks |-> h]) :
     f \in {"predictNextGenreV1", "predictNextGenre"},
     h \in {h \in ProbeHistories : Len(h) > 0}}

\* The calls of the two trend functions, on histories of up to MaxList
\* tracks.
TrendCalls ==
  {Call("trends", [tracks |-> h]) :
     h \in UNION {[1..n -> {[Metadata("a", "n1", "pop", p)
                               EXCEPT !.releaseYear = y] :
                              p \in {Undefined, 0, 50, 58, 66},
                              y \in {Undefined, 2019, 2021, 2023}}] :
                    n \in 0..MaxList}}

\* The longest popularity trend isGoodPopularityTransition is applied to.
MaxTrend == 4

\* The calls of isGoodPopularityTransition.
TransitionCalls ==
  {Call("isGoodPopularityTransition",
        [currentPopularity |-> c, nextPopularity |-> x, trend |-> t]) :
     c \in {Undefined, 0, 10, 40, 60, 90},
     x \in {Undefined, 0, 10, 40, 60, 90},
     t \in UNION {[1..n -> {10, 50, 90}] : n \in 0..MaxTrend}}

FunctionInit ==
  /\ HandlerIdle
  /\ page = NoPage
  /\ \/ probe \in ScoringCalls
     \/ probe \in TitleCalls
     \/ probe \in MoodCalls
     \/ probe \in MetricCalls
     \/ probe \in SimilarityCalls
     \/ probe \in ContextCalls
     \/ probe \in PredictorCalls
     \/ probe \in TrendCalls
     \/ probe \in TransitionCalls

\* The call returns `value`.
Return(value) ==
  /\ ~probe.done
  /\ probe' = [probe EXCEPT !.done = TRUE, !.out = value]
  /\ UNCHANGED <<handlerVars, page>>

\* Scores are kept in units of 1/Unit, whatever the function returns.
ApplyScoreTrack ==
  /\ probe.of = "scoreTrack"
  /\ Return((Unit \div 100)
            * scoreTrack(probe.args.track, probe.args.prefs,
                         probe.args.selectedTracks, probe.args.extractedGenres,
                         probe.args.context))

ApplyScoreTrackForSequence ==
  /\ probe.of = "scoreTrackForSequence"
  /\ Return((Unit \div 100)
            * scoreTrackForSequence(probe.args.track,
                                    probe.args.listeningHistory,
                                    probe.args.preferences))

ApplyScoreTrackForSequenceV1 ==
  /\ probe.of = "scoreTrackForSequenceV1"
  /\ Return(scoreTrackForSequenceV1(probe.args.track,
                                    probe.args.listeningHistory,
                                    probe.args.preferences))

\* Token overlap (reference-track route).
ApplyTitleSimilarity ==
  /\ probe.of = "calculateTitleSimilarity"
  /\ Return(calculateTitleSimilarity(probe.args.title1, probe.args.title2))

\* Edit distance (history routes).
ApplyTitleSimilarityLev ==
  /\ probe.of = "calculateTitleSimilarityLev"
  /\ Return(calculateTitleSimilarityLev(probe.args.title1, probe.args.title2))

ApplyMoodSimilarity ==
  /\ probe.of = "calculateMoodSimilarity"
  /\ Return(calculateMoodSimilarity(probe.args.track,
                                    probe.args.moodPreferences))

\* calculateGenreCoherence, calculatePopularitySmoothness and
\* calculateGenreConsistency, each a fraction <<numerator, denominator>>.
ApplyEvaluationMetrics ==
  /\ probe.of = "evaluationMetrics"
  /\ Return(evaluationMetricsOf(probe.args.recommendations))

ApplyTrackSimilarity ==
  /\ probe.of = "calculateTrackSimilarity"
  /\ Return(calculateTrackSimilarity(probe.args.track,
                                     probe.args.selectedTracks))

ApplyContextScore ==
  /\ probe.of = "calculateContextScore"
  /\ Return(calculateContextScore(probe.args.track, probe.args.context))

\* The first history route: the transitions of the history and the genre
\* predicted after its last track.
ApplyPredictNextGenreV1 ==
  /\ probe.of = "predictNextGenreV1"
  /\ LET tracks == probe.args.tracks
         transitions == calculateGenreTransitions(tracks)
     IN  Return([genreTransitions |-> transitions,
                 predicted |-> predictNextGenreV1(transitions,
                                                  tracks[Len(tracks)].genre)])

\* The later history route: the genres accepted after the last track.
ApplyPredictNextGenre ==
  /\ probe.of = "predictNextGenre"
  /\ LET tracks == probe.args.tracks
     IN  Return(predictNextGenre(calculateGenreTransitions(tracks),
                                 tracks[Len(tracks)].genre, Genres(tracks)))

\* calculatePopularityTrend and calculateReleaseYearTrend.
ApplyTrends ==
  /\ probe.of = "trends"
  /\ Return([popularityTrend |-> calculatePopularityTrend(probe.args.tracks),
             releaseYearTrend |-> calculateReleaseYearTrend(probe.args.tracks)])

ApplyIsGoodPopularityTransition ==
  /\ probe.of = "isGoodPopularityTransition"
  /\ Return(isGoodPopularityTransition(probe.args.currentPopularity,
                                       probe.args.nextPopularity,
                                       probe.args.trend))

FunctionNext ==
  \/ ApplyScoreTrack
  \/ ApplyScoreTrackForSequence
  \/ ApplyScoreTrackForSequenceV1
  \/ ApplyTitleSimilarity
  \/ ApplyTitleSimilarityLev
  \/ ApplyMoodSimilarity
  \/ ApplyEvaluationMetrics
  \/ ApplyTrackSimilarity
  \/ ApplyContextScore
  \/ ApplyPredictNextGenreV1
  \/ ApplyPredictNextGenre
  \/ ApplyTrends
  \/ ApplyIsGoodPopularityTransition

FunctionSpec == FunctionInit /\ [][FunctionNext]_vars

\* A call of `of` has returned.
Returned(of) == probe.of = of /\ probe.done

\* C12: the score a scoring function returns has two decimal places (100
\* times the score is an integer), whichever the route: scoreTrack of the
\* reference-track route, scoreTrackForSequence of the history routes, and
\* its fall-back to scoreTrack on an empty history.
C12_ScoresHaveTwoDecimals ==
  (\/ Returned("scoreTrack")
   \/ Returned("scoreTrackForSequence")
   \/ Returned("scoreTrackForSequenceV1"))
  => probe.out % (Unit \div 100) = 0

\* C13: title similarity is symmetric, calculateTitleSimilarity(a, b) =
\* calculateTitleSimilarity(b, a), in the edit-distance implementation and
\* in the token-overlap implementation, titles that repeat a word included.
C13_TitleSimilaritySymmetric ==
  /\ Returned("calculateTitleSimilarity") =>
       probe.out = calculateTitleSimilarity(probe.args.title2,
                                            probe.args.title1)
  /\ Returned("calculateTitleSimilarityLev") =>
       probe.out = calculateTitleSimilarityLev(probe.args.title2,
                                               probe.args.title1)

\* C14: calculateMoodSimilarity returns a value in [0, 1] for every track
\* (popularity absent or 0..100, any genre) and every mood profile (any
\* genre list, any popularity range).
C14_MoodSimilarityInUnitInterval ==
  Returned("calculateMoodSimilarity") => probe.out \in 0..Unit

\* C14's case: a track far outside the profile's range gets no credit, and
\* a track of a preferred genre inside the range gets all of it.
C14_MoodSimilarityAtAnEnd ==
  /\ Returned("calculateMoodSimilarity")
  /\ probe.args.track.popularity # Undefined
  /\ \/ /\ probe.out = 0
        /\ probe.args.track.popularity
             < probe.args.moodPreferences.popularityRange[1] - 20
     \/ /\ probe.out = Unit
        /\ probe.args.track.popularity = 0

\* C15: genreCoherence, popularitySmoothness and genreConsistency are each
\* in [0, 1] for every recommendation list, and exactly 1 when the list has
\* fewer than 2 entries.
C15_MetricsInUnitInterval ==
  Returned("evaluationMetrics") =>
    \A m \in {probe.out.genreCoherence, probe.out.popularitySmoothness,
              probe.out.genreConsistency} :
      /\ m[2] > 0
      /\ 0 <= m[1]
      /\ m[1] <= m[2]
      /\ Len(probe.args.recommendations) < 2 => m[1] = m[2]

\* C15's case: popularities that swing by more than 50 on average, where
\* the smoothness is held at 0, in a list of one genre.
C15_SmoothnessHeldAtZero ==
  /\ Returned("evaluationMetrics")
  /\ probe.out.popularitySmoothness[1] = 0
  /\ probe.out.genreCoherence[1] = 1
  /\ Len(probe.args.recommendations) = 3
  /\ probe.args.recommendations[1].track.popularity = 0
  /\ probe.args.recommendations[2].track.popularity = MaxPopularity
  /\ probe.args.recommendations[3].track.popularity = 0

C17_TrackSimilarityFormula ==
  Returned("calculateTrackSimilarity") =>
    LET track == probe.args.track
        refs == probe.args.selectedTracks
        Term(r) ==
          (IF \/ includes(toLowerCase(track.artist),
                          toLowerCase(r.artists[1].name))
              \/ includes(toLowerCase(r.artists[1].name),
                          toLowerCase(track.artist))
           THEN Unit \div 2 ELSE 0)
          + (3 * calculateTitleSimilarity(track.title, r.name)) \div 10
          + (2 * Max(0, Unit - (Abs(track.popularity - r.popularity) * Unit)
                                 \div 100)) \div 10
    IN  /\ probe.out = MaxOver([i \in DOMAIN refs |-> Term(refs[i])])
        /\ probe.out \in 0..Unit

\* C18: calculateContextScore is min(1, 0.6 timeScore + 0.4 activityScore),
\* a dimension that is not given adding 0, where each score is the first
\* matching rule of its table on the lower-cased genre and the candidate's
\* own popularity, for every popularity 0..100, 0 included.
C18_ContextScoreFormula ==
  Returned("calculateContextScore") =>
    LET track == probe.args.track
        context == probe.args.context
        timeScore ==
          IF context.timeOfDay = Absent THEN 0
          ELSE TimeOfDayRules(toLowerCase(track.genre), track.popularity,
                              context.timeOfDay)
        activityScore ==
          IF context.activity = Absent THEN 0
          ELSE ActivityRules(toLowerCase(track.genre), track.popularity,
                             context.activity)
    IN  probe.out = Min(Unit, (6 * timeScore * Unit) \div 100
                              + (4 * activityScore * Unit) \div 100)

\* C19: on a non-empty history, genreTransitions gives each key "G->H" the
\* number of positions where a track of genre G is followed by one of genre
\* H (the counts add up to length - 1), and the simple predictor returns the
\* genre X with the most transitions "lastGenre->X", the one whose
\* transition occurs first in the history among equals, and lastGenre when
\* no transition leaves lastGenre.
C19_TransitionsAndSimplePredictor ==
  Returned("predictNextGenreV1") =>
    LET genres == Genres(probe.args.tracks)
        n == Len(genres)
        lastGenre == genres[n]
        Places(g, h) == {i \in 1..(n - 1) : genres[i] = g /\ genres[i + 1] = h}
        transitions == probe.out.genreTransitions
        Leaving == {x \in Range(genres) : Places(lastGenre, x) # {}}
        Best == {x \in Leaving :
                   \A y \in Leaving :
                     Cardinality(Places(lastGenre, y))
                       <= Cardinality(Places(lastGenre, x))}
        First(x) == CHOOSE i \in Places(lastGenre, x) :
                      \A j \in Places(lastGenre, x) : i <= j
        RECURSIVE Total(_)
        Total(keys) ==
          IF keys = <<>> THEN 0
          ELSE transitions.count[Head(keys)] + Total(Tail(keys))
    IN  /\ DOMAIN transitions.count = Range(transitions.keys)
        /\ Total(transitions.keys) = n - 1
        /\ \A g, h \in Range(genres) :
             IF Places(g, h) = {}
             THEN TransitionKey(g, h) \notin DOMAIN transitions.count
             ELSE /\ TransitionKey(g, h) \in DOMAIN transitions.count
                  /\ transitions.count[TransitionKey(g, h)]
                       = Cardinality(Places(g, h))
        /\ Cardinality(DOMAIN transitions.count)
             = Cardinality({<<g, h>> \in Range(genres) \X Range(genres) :
                              Places(g, h) # {}})
        /\ IF Leaving = {} THEN probe.out.predicted = lastGenre
           ELSE /\ probe.out.predicted \in Best
                /\ \A x \in Best : First(probe.out.predicted) <= First(x)

\* C19's case: two transitions leave the last genre equally often, and the
\* one the history shows first is not the one it shows last.
C19_TiedTransitions ==
  /\ Returned("predictNextGenreV1")
  /\ Len(probe.args.tracks) = 5
  /\ LET genres == Genres(probe.args.tracks)
     IN  /\ genres[1] = genres[5]
         /\ genres[3] = genres[5]
         /\ genres[2] # genres[4]
         /\ genres[2] # genres[5]
         /\ genres[4] # genres[5]
         /\ probe.out.predicted = genres[2]

\* C20: on a non-empty history the richer predictor returns exactly the
\* targets of the (at most two) most frequent transitions leaving lastGenre
\* together with the (at most three) most frequent genres of the history:
\* a non-empty set of at most 5 genres, all of them genres of the history,
\* and {lastGenre} only if that union is empty.
C20_AcceptanceSet ==
  Returned("predictNextGenre") =>
    LET genres == Genres(probe.args.tracks)
        n == Len(genres)
        lastGenre == genres[n]
        Count(x) == Cardinality({i \in 1..(n - 1) :
                                   genres[i] = lastGenre /\ genres[i + 1] = x})
        Leaving == {x \in Range(genres) : Count(x) > 0}
        \* the choices of up to `k` members of `all` of the largest `size`
        Top(all, k, size(_)) ==
          {top \in SUBSET all :
             /\ Cardinality(top) = Min(k, Cardinality(all))
             /\ \A x \in top : \A y \in all \ top : size(y) <= size(x)}
        Unions == {direct \cup frequent :
                     direct \in Top(Leaving, 2, Count),
                     frequent \in Top(Range(genres), 3,
                                      LAMBDA x : Frequency(genres, x))}
        accepted == Range(probe.out)
    IN  /\ accepted \in Unions
        /\ Cardinality(accepted) = Len(probe.out)
        /\ accepted # {}
        /\ Cardinality(accepted) <= 5
        /\ accepted \subseteq Range(genres)
        \* the union is never empty here: lastGenre is not needed
        /\ {} \notin Unions

\* C20's case: a transition leaves the last genre for a genre that is not
\* among the three most frequent, and the set has four genres.
C20_TargetBesideTheFrequent ==
  /\ Returned("predictNextGenre")
  /\ Len(probe.out) = 4
  /\ Genres(probe.args.tracks) = <<"pop", "rock", "jazz", "folk", "jazz">>
  /\ probe.out[1] = "folk"

\* C21: popularityTrend and releaseYearTrend keep the first point, and keep
\* a later point exactly when it differs by more than 10 (by more than 2
\* years) from the last point that was kept.
C21_TrendKeepsAgainstLastKept ==
  Returned("trends") =>
    LET tracks == probe.args.tracks
        RECURSIVE Kept(_, _)
        \* the points of `points` kept, the last of them last
        Kept(points, step) ==
          IF points = <<>> THEN <<>>
          ELSE LET before == Kept(SubSeq(points, 1, Len(points) - 1), step)
                   point == points[Len(points)]
               IN  IF before = <<>> \/ Abs(point - before[Len(before)]) > step
                   THEN Append(before, point) ELSE before
    IN  /\ probe.out.popularityTrend
             = Kept([i \in DOMAIN tracks |-> PopularityOr50(tracks[i])], 10)
        /\ probe.out.releaseYearTrend
             = Kept([i \in DOMAIN tracks |->
                       IF tracks[i].releaseYear = Undefined THEN CurrentYear
                       ELSE tracks[i].releaseYear], 2)

\* C22: for a popularityTrend of 2 or more points, the popularity bonus is
\* given exactly when |(candidate.popularity - last.popularity) - slope| < 20,
\* slope being the mean of the successive differences among the last (at
\* most 3) points of the trend.
C22_BonusFollowsRecentSlope ==
  (/\ Returned("isGoodPopularityTransition")
   /\ Len(probe.args.trend) >= 2
   /\ probe.args.currentPopularity # Undefined
   /\ probe.args.nextPopularity # Undefined) =>
    LET recent == LastThree(probe.args.trend)
        differences == Len(recent) - 1
        change == probe.args.nextPopularity - probe.args.currentPopularity
    IN  \* slope = SumDeltas(recent) / differences
        probe.out = (Abs(change * differences - SumDeltas(recent))
                       < 20 * differences)

\* C23: the search queries handed to the catalog are deduplicated (no
\* string twice), hold no empty string and are at most 6, in reference-track
\* mode (track queries and extracted-genre queries) and in history mode.
C23_QueriesDistinctAndBounded ==
  /\ Len(searchQueries) <= 6
  /\ \A i \in DOMAIN searchQueries :
       /\ searchQueries[i] \notin {Absent, ""}
       /\ \A j \in DOMAIN searchQueries :
            searchQueries[i] = searchQueries[j] => i = j

\* ------------------------------------------------------ the track search

\* The number of searches submitted in one session.
MaxSearches == 3

\* What /api/search answers to a query.
TracksFor(query) == <<query \o "-1", query \o "-2">>

\* useTrackSearch's state after the first render.  `inFlight` holds the
\* requests not yet answered, `succeeded` the requests answered 200, each
\* with its number of submission and its query; `submitted` counts them.
SearchInit ==
  /\ HandlerIdle
  /\ probe = NoProbe
  /\ page = [open |-> TRUE,
             searchQuery |-> "",
             searchResults |-> <<>>,
             searchLoading |-> FALSE,
             submitted |-> 0,
             inFlight |-> {},
             succeeded |-> {}]

\* searchTracks up to its await.
searchTracks(p) ==
  IF Len(trim(p.searchQuery)) = 0 THEN p
  ELSE [p EXCEPT !.searchLoading = TRUE,
                 !.submitted = @ + 1,
                 !.inFlight = @ \cup {[n |-> p.submitted + 1,
                                       query |-> p.searchQuery]}]

\* onChange of the input.
SetSearchQuery(query) ==
  /\ page.searchQuery # query
  /\ page' = [page EXCEPT !.searchQuery = query]
  /\ UNCHANGED <<handlerVars, probe>>

\* onKeyPress with Enter: onSearch, whatever searchLoading is.
PressEnter ==
  /\ page.submitted < MaxSearches
  /\ page' = searchTracks(page)
  /\ UNCHANGED <<handlerVars, probe>>

\* The Search button, disabled while searchLoading.
ClickSearch ==
  /\ ~page.searchLoading
  /\ page.submitted < MaxSearches
  /\ page' = searchTracks(page)
  /\ UNCHANGED <<handlerVars, probe>>

\* A request is answered 200: setSearchResults, then finally.
SearchOk(r) ==
  /\ r \in page.inFlight
  /\ page' = [page EXCEPT !.searchResults = TracksFor(r.query),
                          !.searchLoading = FALSE,
                          !.inFlight = @ \ {r},
                          !.succeeded = @ \cup {r}]
  /\ UNCHANGED <<handlerVars, probe>>

\* A request fails: catch, then finally.
SearchFail(r) ==
  /\ r \in page.inFlight
  /\ page' = [page EXCEPT !.searchLoading = FALSE, !.inFlight = @ \ {r}]
  /\ UNCHANGED <<handlerVars, probe>>

SearchNext ==
  \/ \E query \in {"", "x", "y"} : SetSearchQuery(query)
  \/ PressEnter
  \/ ClickSearch
  \/ \E r \in page.inFlight : SearchOk(r)
  \/ \E r \in page.inFlight : SearchFail(r)

SearchSpec == SearchInit /\ [][SearchNext]_vars

\* C24: whatever the order of submissions (button or Enter) and answers,
\* once no search is in flight the results shown are those of the latest
\* submitted query that succeeded, and searchLoading is never false while
\* a search is in flight.
C24_LatestSearchShown ==
  /\ page.inFlight # {} => page.searchLoading
  /\ (page.inFlight = {} /\ page.succeeded # {}) =>
       \E r \in page.succeeded :
         /\ \A q \in page.succeeded : q.n <= r.n
         /\ page.searchResults = TracksFor(r.query)

\* ---------------------------------------------------------------------
\* useTrackManagement and the refactored SetPreferences.  A function of
\* the hook closes over the selectedTracks of the render that created it
\* (seen) and queues an updater that React applies to the latest state
\* (prev).  Tracks are written by their ids.
\* ---------------------------------------------------------------------
MaxEvents == 4

TrackIds == {"t1", "t3", "t4"}

\* An addTrack without its test.
addTrackUnguarded(seen, prev, track) == Append(prev, track)

addTrack(seen, prev, track) ==
  IF ~SeqIncludes(seen, track) THEN Append(prev, track) ELSE prev

removeTrack(prev, trackId) == SelectSeq(prev, LAMBDA t : t # trackId)

isTrackSelected(seen, trackId) == SeqIncludes(seen, trackId)

toggleTrack(seen, prev, track) ==
  IF isTrackSelected(seen, track)
  THEN removeTrack(prev, track)
  ELSE addTrack(seen, prev, track)

clearAllTracks == <<>>

\* What a render of SetPreferences hands to its handlers: the hook's
\* selection and the parent's selectedTracks prop.
Rendering(p) == [hook |-> p.hook, parent |-> p.parent]

SelectionInit ==
  /\ HandlerIdle
  /\ probe = NoProbe
  /\ page = [open |-> TRUE,
             hook |-> <<>>,
             parent |-> <<>>,
             render |-> [hook |-> <<>>, parent |-> <<>>],
             events |-> 0,
             stale |-> FALSE]

\* An event is counted, and it is noted whether its render was behind.
Handled(p) ==
  [p EXCEPT !.events = @ + 1,
            !.stale = @ \/ p.render # Rendering(p)]

handleTrackToggle(p, track) ==
  [Handled(p) EXCEPT
     !.hook = toggleTrack(p.render.hook, p.hook, track),
     !.parent = IF isTrackSelected(p.render.hook, track)
                THEN SelectSeq(p.render.parent, LAMBDA t : t # track)
                ELSE Append(p.render.parent, track)]

handleTrackRemove(p, trackId) ==
  [Handled(p) EXCEPT
     !.hook = removeTrack(p.hook, trackId),
     !.parent = SelectSeq(p.render.parent, LAMBDA t : t # trackId)]

handleClearAllTracks(p) ==
  [Handled(p) EXCEPT !.hook = clearAllTracks, !.parent = <<>>]

\* React renders SetPreferences again with the latest states.
Render ==
  /\ page.render # Rendering(page)
  /\ page' = [page EXCEPT !.render = Rendering(page)]
  /\ UNCHANGED <<handlerVars, probe>>

\* The button of a track in a TrackList.
ClickTrack(track) ==
  /\ page.events < MaxEvents
  /\ page' = IF isTrackSelected(page.render.hook, track)
             THEN handleTrackRemove(page, track)
             ELSE handleTrackToggle(page, track)
  /\ UNCHANGED <<handlerVars, probe>>

\* The "clear all" button of the selected tracks, disabled while the
\* rendered list is empty.
ClickClearAll ==
  /\ page.events < MaxEvents
  /\ Len(page.render.parent) > 0
  /\ page' = handleClearAllTracks(page)
  /\ UNCHANGED <<handlerVars, probe>>

SelectionNext ==
  \/ Render
  \/ \E track \in TrackIds : ClickTrack(track)
  \/ ClickClearAll

SelectionSpec == SelectionInit /\ [][SelectionNext]_vars

Ids(tracks) == {tracks[i] : i \in DOMAIN tracks}

\* C25: whatever the order of events and re-renders, two events against
\* one render included, the hook's selection and the parent's
\* selectedTracks hold the same track ids.
C25_HookFollowsParent == Ids(page.hook) = Ids(page.parent)

\* ---------------------------------------------------------------------
\* The selected-track collection under its operations, one call after
\* another: React renders again after the event of a call, so that the
\* next call sees the collection the last one left.
\* ---------------------------------------------------------------------
MaxCalls == 4

CollectionInit ==
  /\ HandlerIdle
  /\ probe = NoProbe
  /\ page = [open |-> TRUE,
             selectedTracks |-> <<>>,
             calls |-> 0,
             last |-> [op |-> "none", id |-> Null, had |-> FALSE]]

\* The collection after a call, with what the call was and whether the
\* id was in the collection when it was made.
Called(op, id, tracks) ==
  [page EXCEPT !.selectedTracks = tracks,
               !.calls = @ + 1,
               !.last = [op |-> op, id |-> id,
                         had |-> SeqIncludes(page.selectedTracks, id)]]

CallAddTrack(track) ==
  /\ page.calls < MaxCalls
  /\ page' = Called("add", track,
                    addTrack(page.selectedTracks, page.selectedTracks, track))
  /\ UNCHANGED <<handlerVars, probe>>

CallRemoveTrack(trackId) ==
  /\ page.calls < MaxCalls
  /\ page' = Called("remove", trackId,
                    removeTrack(page.selectedTracks, trackId))
  /\ UNCHANGED <<handlerVars, probe>>

CallToggleTrack(track) ==
  /\ page.calls < MaxCalls
  /\ page' = Called("toggle", track,
                    toggleTrack(page.selectedTracks, page.selectedTracks,
                                track))
  /\ UNCHANGED <<handlerVars, probe>>

CallClearAllTracks ==
  /\ page.calls < MaxCalls
  /\ page' = Called("clear", Null, clearAllTracks)
  /\ UNCHANGED <<handlerVars, probe>>

CollectionNext ==
  \/ \E track \in TrackIds : CallAddTrack(track)
  \/ \E trackId \in TrackIds : CallRemoveTrack(trackId)
  \/ \E track \in TrackIds : CallToggleTrack(track)
  \/ CallClearAllTracks

CollectionSpec == CollectionInit /\ [][CollectionNext]_vars

FetchSettles ==
  \/ \E list \in PostedLists : PostOk(list)
  \/ \E message \in PostedMessages : PostFail(message)

PageLiveSpec == PageInit /\ [][PageNext]_vars /\ WF_vars(FetchSettles)

\* C27: a getRecommendations call that issues a request clears the list
\* on show and sets loading; when the fetch settles, loading is false
\* and either the list is the one of the response and no track is
\* playing (success), or an error message is set and the list is still
\* empty (failure); a request in flight leads to loading = false.
C27_RequestRunsToAnOutcome ==
  /\ [][page'.posts > page.posts =>
          /\ page'.recommendations = <<>>
          /\ page'.loading]_vars
  /\ [][(page.posting /\ ~page'.posting) =>
          /\ ~page'.loading
          /\ page'.answer.status = "ok" =>
               /\ page'.recommendations = page'.answer.recommendations
               /\ page'.selectedTrackId = Null
          /\ page'.answer.status = "failed" =>
               /\ page'.errorMessage = page'.answer.message
               /\ page'.errorMessage # Null
               /\ page'.recommendations = <<>>]_vars
  /\ (page.posting /\ page.loading) ~> (~page.posting /\ ~page.loading)

\* A second request, made while the list of the first was on show with a
\* track playing, has failed.
C27_FailedAfterAList ==
  /\ page.posts = 2
  /\ page.answer.status = "failed"
  /\ ~page.loading
  /\ page.errorMessage # Null
  /\ page.recommendations = <<>>
  /\ page.selectedTrackId # Null

\* C28: the error message of a failed request stays on show until the
\* next getRecommendations call: no other step changes it, the timer of
\* an earlier refused click included.
C28_FailureMessageStays ==
  [][(page.errorMessage \in PostedMessages
        /\ page'.errorMessage # page.errorMessage)
     => page'.clicks > page.clicks]_vars

\* A history request whose listeningHistory is an array and whose
\* preferences object is missing or has no preferredGenres array.
InvalidPreferences ==
  /\ req.mode = "history"
  /\ req.listeningHistory # Absent
  /\ \/ req.preferences = NoObject
     \/ req.preferences.preferredGenres = Absent

\* C29: such a request is answered 400 "Invalid preferences provided",
\* whatever the listening history, the empty one included; validation
\* does not throw.
C29_InvalidPreferencesAnswered ==
  (InvalidPreferences /\ pc # "start") =>
    response = Message(400, "Invalid preferences provided")

\* A history request of which no id resolved and which prefers no genre.
NothingToSearch ==
  /\ req.mode = "history"
  /\ req.listeningHistory # Absent
  /\ Len(req.listeningHistory) > 0
  /\ req.preferences # NoObject
  /\ req.preferences.preferredGenres # Absent
  /\ Len(req.preferences.preferredGenres) = 0
  /\ pc \notin {"start", "token", "resolve"}
  /\ historyTracks = <<>>

\* C30: in history mode a search is issued with a defined, non-empty
\* query only; with no resolved history track and no preferred genre no
\* search is issued and no recommendation is made.
C30_HistorySearchHasAQuery ==
  /\ (req.mode = "history" /\ "search" \in called) =>
       /\ Len(searchQueries) > 0
       /\ \A i \in DOMAIN searchQueries :
            searchQueries[i] # Absent /\ Len(trim(searchQueries[i])) > 0
  /\ NothingToSearch =>
       /\ "search" \notin called
       /\ recommendations = <<>>

=============================================================================
